---------------------------- MODULE Spec2Model ----------------------------
(***************************************************************************)
(* Model of paperexport.py (gregosimo/rotletter18): the write_plot         *)
(* decorator, the command-line entry point with its figure registry, the   *)
(* figure functions the registry and the decorator reach, and the table    *)
(* writers.                                                                *)
(*                                                                         *)
(* Numerical collaborators (catalog loaders, isochrone models, matplotlib) *)
(* are represented by what the script observes of them: a catalog load     *)
(* either succeeds or raises, a drawing call leaves a mark on the current  *)
(* figure, savefig stores the current figure under a path.                 *)
(***************************************************************************)
EXTENDS Integers, Sequences, FiniteSets, TLC

(***************************************************************************)
(* Bounds of the model.                                                    *)
(***************************************************************************)
MaxToks == 2
MaxCalls == 2
MaxStars == 2

(***************************************************************************)
(* Module-level constants of the script.                                   *)
(***************************************************************************)
PAPER_PATH == "papers/rotletter18"
TABLE_PATH == PAPER_PATH \o "/tables"
FIGURE_PATH == PAPER_PATH \o "/fig"
PLOT_SUFFIX_png == "png"
PLOT_SUFFIX == "pdf"

\* toplevel / ".".join((filename, suffix)), as a string
build_filepath_nosuffix(toplevel, filename, suffix) == toplevel \o "/" \o filename
build_filepath(toplevel, filename, suffix) ==
    toplevel \o "/" \o filename \o "." \o suffix

(***************************************************************************)
(* The figure registry of __main__, in insertion order.                    *)
(***************************************************************************)
figlist ==
    << [key |-> "Bruntt",     fn |-> "Bruntt_vsini_comparison"],
       [key |-> "SH",         fn |-> "Pleiades_vsini_comparison"],
       [key |-> "asterosamp", fn |-> "asteroseismic_sample_MK"],
       [key |-> "coolsamp",   fn |-> "cool_dwarf_mk"],
       [key |-> "asterorot",  fn |-> "asteroseismic_rotation_analysis"],
       [key |-> "coolrot",    fn |-> "cool_dwarf_rotation_analysis"],
       [key |-> "rrfracs",    fn |-> "plot_rr_fractions"],
       [key |-> "binarity",   fn |-> "plot_binarity_diagram"] >>

figlist_keys == [k \in DOMAIN figlist |-> figlist[k].key]
figlist_values == [k \in DOMAIN figlist |-> figlist[k].fn]
KeySet == {figlist[k].key : k \in DOMAIN figlist}
\* figlist[figname]; only used for figname \in KeySet (otherwise KeyError)
figlist_get(figname) ==
    figlist[CHOOSE k \in DOMAIN figlist : figlist[k].key = figname].fn

(***************************************************************************)
(* The functions modelled, and the file name each is decorated with        *)
(* (@write_plot(filename)); "" for a function without the decorator.       *)
(***************************************************************************)
FigureFns ==
    { "Bruntt_vsini_comparison", "Pleiades_vsini_comparison",
      "asteroseismic_sample_MK", "cool_dwarf_mk",
      "asteroseismic_rotation_analysis", "cool_dwarf_rotation_analysis",
      "plot_rr_fractions", "plot_binarity_diagram",
      "rapid_rotator_binarity", "plot_k_excess_rotation_apogee" }

write_plot_filename(f) ==
    CASE f = "Bruntt_vsini_comparison"         -> "Bruntt_comp"
      [] f = "Pleiades_vsini_comparison"       -> "Pleiades_comp"
      [] f = "asteroseismic_sample_MK"         -> "astero"
      [] f = "cool_dwarf_mk"                   -> "cool_mk_sample"
      [] f = "asteroseismic_rotation_analysis" -> "astero_rot"
      [] f = "cool_dwarf_rotation_analysis"    -> "cool_rot"
      [] f = "plot_rr_fractions"               -> "detection_fraction"
      [] f = "rapid_rotator_binarity"          -> "binarity"
      [] f = "plot_k_excess_rotation_apogee"   -> "binary_cut"
      [] OTHER                                 -> ""

Decorated(f) == write_plot_filename(f) # ""

(***************************************************************************)
(* Names bound in the module namespace when a function body runs: the      *)
(* imports and the top-level defs.  Only the names the modelled bodies     *)
(* look up are listed.                                                     *)
(***************************************************************************)
ModuleNames == {"plt", "catin", "cache", "sed", "samp", "hr", "rot", "au",
                "catalog", "vstack", "np"}

\* Catalog loads whose success depends on the files of the environment.
Catalogs == {"bruntt_dr14_overlap", "Stauffer_APOGEE_overlap",
             "full_apogee_splitter", "mcquillan_corrected_splitter",
             "read_dr14_allStar"}

(***************************************************************************)
(* The body of each function, reduced to the statements that touch the     *)
(* modelled state, in source order:                                        *)
(*   name     - a global name is looked up (NameError if it is unbound)    *)
(*   load     - a catalog is loaded through a collaborator (may raise)     *)
(*   newfig   - plt.subplots / plt.figure: a new current figure            *)
(*   draw     - a drawing call on the current figure                       *)
(*   return   - return of a value                                          *)
(* A body that ends without return returns None.                           *)
(***************************************************************************)
Op(o, a) == [op |-> o, arg |-> a]

Body(f) ==
    CASE f = "Bruntt_vsini_comparison" ->
           << Op("newfig", ""), Op("load", "bruntt_dr14_overlap"),
              Op("draw", f), Op("return", "cov") >>
      [] f = "Pleiades_vsini_comparison" ->
           << Op("newfig", ""), Op("load", "Stauffer_APOGEE_overlap"),
              Op("draw", f) >>
      [] f = "asteroseismic_sample_MK" ->
           << Op("newfig", ""), Op("name", "asteroseismic_data_splitter"),
              Op("draw", f) >>
      [] f = "cool_dwarf_mk" ->
           << Op("newfig", ""), Op("name", "cool_data_splitter"),
              Op("draw", f) >>
      [] f = "asteroseismic_rotation_analysis" ->
           << Op("name", "asteroseismic_data_splitter"),
              Op("newfig", ""), Op("draw", f) >>
      [] f = "cool_dwarf_rotation_analysis" ->
           << Op("name", "cool_data_splitter"), Op("draw", f) >>
      [] f = "plot_rr_fractions" ->
           << Op("name", "cool_data_splitter"), Op("newfig", ""),
              Op("draw", f) >>
      [] f = "plot_binarity_diagram" ->
           << Op("name", "cool_data_splitter"), Op("name", "sed"),
              Op("newfig", ""), Op("draw", f) >>
      [] f = "rapid_rotator_binarity" ->
           << Op("name", "cool_data_splitter"), Op("newfig", ""),
              Op("draw", f) >>
      [] f = "plot_k_excess_rotation_apogee" ->
           << Op("name", "cache"), Op("load", "full_apogee_splitter"),
              Op("draw", f) >>
      [] OTHER -> << >>

(***************************************************************************)
(* matplotlib's figure state as the script uses it: the open figures, the  *)
(* last one being current; a figure is the sequence of marks drawn on it.  *)
(***************************************************************************)
CloseAll_noop(figs) == figs
CloseAll(figs) == << >>
NewFigure(figs) == Append(figs, << >>)
\* pyplot draws on the current figure and creates one when none is open
DrawOn(figs, mark) ==
    IF figs = << >> THEN << <<mark>> >>
    ELSE [figs EXCEPT ![Len(figs)] = Append(@, mark)]
\* plt.gcf(): the current figure, created empty when none is open
CurrentFigure(figs) == IF figs = << >> THEN << >> ELSE figs[Len(figs)]
AfterGcf(figs) == IF figs = << >> THEN << << >> >> ELSE figs

(***************************************************************************)
(* Running a body: the statements are executed in order from index k; the  *)
(* result is the figure state left behind and either the value returned    *)
(* or the exception raised.                                                *)
(***************************************************************************)
RECURSIVE RunBody(_, _, _, _)
RunBody(ops, k, figs, env) ==
    IF k > Len(ops) THEN [figs |-> figs, exc |-> "none", ret |-> "None"]
    ELSE LET o == ops[k] IN
      CASE o.op = "name" ->
             IF o.arg \in ModuleNames THEN RunBody(ops, k + 1, figs, env)
             ELSE [figs |-> figs, exc |-> "NameError", ret |-> "None"]
        [] o.op = "load" ->
             IF o.arg \in env THEN RunBody(ops, k + 1, figs, env)
             ELSE [figs |-> figs, exc |-> "LoadError", ret |-> "None"]
        [] o.op = "newfig" -> RunBody(ops, k + 1, NewFigure(figs), env)
        [] o.op = "draw" -> RunBody(ops, k + 1, DrawOn(figs, o.arg), env)
        [] o.op = "return" -> [figs |-> figs, exc |-> "none", ret |-> o.arg]
        [] OTHER -> [figs |-> figs, exc |-> "none", ret |-> "None"]

(***************************************************************************)
(* The table writers.  A row of the McQuillan dwarf sample is a star with  *)
(* its KIC identifier, its rotation period (in tenths of a day, so that    *)
(* 1.5 d = 15) and whether APOGEE observed it (its 2MASS designation is an *)
(* APOGEE_ID of the allStar file).                                         *)
(***************************************************************************)
\* the file system: a function from the paths that exist to what they hold
NoFiles == [p \in {} |-> << >>]
\* writing a file creates it or overwrites it
WriteFile(fs, path, content) ==
    [p \in DOMAIN fs \cup {path} |-> IF p = path THEN content ELSE fs[p]]

TableFns == {"write_rapid_rotator_tables", "write_marginal_rotator_tables"}

Periods == {15, 40, 70, 90, 110}

StarCatalogs(n) ==
    UNION { { [k \in 1..m |-> [kepid |-> ids[k], Prot |-> ps[k], apo |-> ap[k]]] :
                ids \in {f \in [1..m -> 1..n] :
                           \A a, b \in 1..m : a # b => f[a] # f[b]},
                ps \in [1..m -> Periods],
                ap \in [1..m -> BOOLEAN] } : m \in 0..n }

\* mcq_dwarfs[np.logical_and(mcq_dwarfs["Prot"] > lo, mcq_dwarfs["Prot"] <(=) hi)]
PeriodSelected_closed(f, prot) ==
    IF f = "write_rapid_rotator_tables"
    THEN prot > 15 /\ prot <= 70
    ELSE prot >= 70 /\ prot < 110
PeriodSelected(f, prot) ==
    IF f = "write_rapid_rotator_tables"
    THEN prot > 15 /\ prot <= 70
    ELSE prot > 70 /\ prot < 110

table_basename(f) ==
    IF f = "write_rapid_rotator_tables" THEN "table1" ELSE "table2"

\* the value a column holds for a star; the columns this model does not
\* compute with are carried as (column, star) tags
Cell(col, star) ==
    CASE col = "kepid" -> [col |-> col, v |-> star.kepid, masked |-> FALSE]
      [] col = "Prot"  -> [col |-> col, v |-> star.Prot, masked |-> FALSE]
      [] col \in {"APOGEE_ID", "FE_H"} ->
            [col |-> col, v |-> star.kepid, masked |-> ~star.apo]
      [] OTHER -> [col |-> col, v |-> star.kepid, masked |-> FALSE]

\* catalog.join_by_2MASS_key(..., join_type="left"): every left row is kept,
\* the APOGEE columns are masked where there is no match
JoinedColumns == << "kepid", "tm_designation", "Prot", "SDSS-Teff", "kmag",
                    "M_K", "Corrected K Excess", "APOGEE_ID", "FE_H",
                    "TEFF", "VSINI" >>
ColumnSet(cols) == {cols[k] : k \in DOMAIN cols}
LeftJoin(stars) ==
    [k \in DOMAIN stars |->
        [c \in ColumnSet(JoinedColumns) |-> Cell(c, stars[k])]]

abridged_cols == << "kepid", "APOGEE_ID", "SDSS-Teff", "kmag", "M_K",
                    "Corrected K Excess", "Prot", "FE_H" >>
latex_colnames == << "KIC", "APOGEE ID", "$\\Teff$", "\\(K\\)", "\\MK",
                     "$\\Delta \\MK$", "$P_{\\mathrm{rot}}$", "\\feh" >>
ascii_colnames == << "KIC", "APOGEE_ID", "Teff", "K", "MK", "DELTA_K",
                     "Prot", "[Fe/H]" >>
latex_length == 5
\* An entry of fill_values is (bad value, replacement, column names...): the
\* members after the second are kept with their Python type, a string or a
\* tuple of strings.
PyStr(name) == [type |-> "str", items |-> << name >>]
PyTuple(names) == [type |-> "tuple", items |-> names]
\* badformat = [(ascii.masked, "", ("APOGEE_ID", "[FE_H]"))]
badformat == << [bad |-> "masked", fill |-> "",
                 cols |-> << PyTuple(<< "APOGEE_ID", "[FE_H]" >>) >>] >>
\* the rule astropy's writer has of its own, kept after the rules given
\* with fill_values=: a masked value is written as the empty string
default_fill_values_none == << >>
default_fill_values == << [bad |-> "masked", fill |-> "", cols |-> << >>] >>

\* The columns a fill rule applies to: all of them when the rule names
\* none, else the written columns x with `x in replacement[2:]`, which a
\* column name satisfies only for a member that is that string.
affect_cols(replacement, colnames) ==
    IF replacement.cols = << >> THEN {colnames[c] : c \in DOMAIN colnames}
    ELSE {colnames[c] : c \in {c \in DOMAIN colnames :
              \E m \in DOMAIN replacement.cols :
                  replacement.cols[m] = PyStr(colnames[c])}}

\* The text written for a masked value of a column: the replacement of the
\* first rule for masked values that applies to the column, "--" if none.
RECURSIVE MaskedText(_, _, _)
MaskedText(colname, rules, colnames) ==
    IF rules = << >> THEN "--"
    ELSE IF Head(rules).bad = "masked"
            /\ colname \in affect_cols(Head(rules), colnames)
         THEN Head(rules).fill
    ELSE MaskedText(colname, Tail(rules), colnames)

\* The fields of the written rows: a value that is not masked is written
\* as itself, a masked one as the text its column's fill rule gives.
Rendered(names, rows, fill) ==
    [k \in DOMAIN rows |->
        [c \in DOMAIN names |->
            IF rows[k][c].masked
            THEN [masked |-> TRUE, v |-> 0,
                  text |-> MaskedText(names[c], fill \o default_fill_values,
                                      names)]
            ELSE [masked |-> FALSE, v |-> rows[k][c].v, text |-> "value"]]]

\* rapid_table[abridged_cols]: the rows as sequences of cells in column order
Project(rows, cols) ==
    [k \in DOMAIN rows |-> [c \in DOMAIN cols |-> rows[k][cols[c]]]]

\* Table.sort("kepid") on the projected table, whose first column is kepid
RECURSIVE InsertRow(_, _)
InsertRow(sorted, row) ==
    IF sorted = << >> THEN << row >>
    ELSE IF row[1].v < Head(sorted)[1].v THEN << row >> \o sorted
    ELSE << Head(sorted) >> \o InsertRow(Tail(sorted), row)
SortByKepid_unsorted(rows) == rows
RECURSIVE SortByKepid(_)
SortByKepid(rows) ==
    IF rows = << >> THEN << >>
    ELSE InsertRow(SortByKepid(SubSeq(rows, 1, Len(rows) - 1)), rows[Len(rows)])

\* table[:n]
FirstRows_all(rows, n) == rows
FirstRows(rows, n) == SubSeq(rows, 1, IF Len(rows) < n THEN Len(rows) ELSE n)

\* what Table.write stores: the dialect, the column names given with names=,
\* the rows, the fill rule given with fill_values=, and the fields as written
Written(format, names, rows, fill) ==
    [format |-> format, names |-> names, rows |-> rows, fill |-> fill,
     text |-> Rendered(names, rows, fill)]

\* the two files a table writer leaves, from the dwarf sample
TableFiles(f, fs, dwarfs) ==
    LET selected == SelectSeq(dwarfs, LAMBDA st : PeriodSelected(f, st.Prot))
        rapid_table == LeftJoin(selected)
        rapid_table_abridged == SortByKepid(Project(rapid_table, abridged_cols))
        latex_table == FirstRows(rapid_table_abridged, latex_length)
        tex == Written("ascii.aastex", latex_colnames, latex_table, << >>)
        txt == Written("ascii.fixed_width", ascii_colnames,
                       rapid_table_abridged, badformat)
    IN WriteFile(WriteFile(fs, TABLE_PATH \o "/" \o table_basename(f) \o ".tex", tex),
                 TABLE_PATH \o "/" \o table_basename(f) \o ".txt", txt)

(***************************************************************************)
(* State.                                                                  *)
(*   genfigs, list_figs  the parsed command line (args.figs, --list-figs)  *)
(*   loadable            the catalogs the environment can load             *)
(*   mcq_dwarfs          the rows mcq.subsample(["Dwarfs", "Right          *)
(*                       Statistics Teff"]) returns, in catalog order      *)
(*   pc, i, j            position of __main__: the for loop over genfigs   *)
(*                       (index i) and the sweep over figlist.values()     *)
(*                       (index j); "session" when functions are called    *)
(*                       directly from an importing session                *)
(*   frame               the function invocation in progress               *)
(*   openfigs, files     matplotlib's open figures, the files on disk      *)
(*   stdout              what was printed                                  *)
(*   log                 the invocations made so far, in order, each with  *)
(*                       the calls made inside it, in order                *)
(*   exc, retval         the exception that ended the last invocation,     *)
(*                       the value the last invocation returned            *)
(*   ncalls, completed   direct calls made, and for each completed one     *)
(*                       the function and the files it left                *)
(*   bins                locals of the percentile-binning functions        *)
(*   fit                 locals of binary_fit's loop over the scatters     *)
(*   splitters           the splitter objects and what the script added    *)
(*                       to them, with the function using them             *)
(*   recov               locals of the loops that contain a try block      *)
(*   calc                locals of the functions that count, bin and       *)
(*                       print rates, one function at a time               *)
(***************************************************************************)
VARIABLES genfigs, list_figs, loadable, mcq_dwarfs, pc, i, j, frame,
          openfigs, files, stdout, log, exc, retval, ncalls, completed,
          bins, fit, splitters, recov, calc

\* The locals of the function bodies that are followed statement by
\* statement: the binning loops, binary_fit's trial loop, the splitter
\* objects, the loops with a try block, and the counting functions.
locals == << bins, fit, splitters, recov, calc >>

vars == << genfigs, list_figs, loadable, mcq_dwarfs, pc, i, j, frame,
           openfigs, files, stdout, log, exc, retval, ncalls, completed,
           locals >>

\* None of those function bodies has been entered.
NotEntered == [fn |-> "none"]
NoLocals ==
    /\ bins = NotEntered
    /\ fit = NotEntered
    /\ splitters = NotEntered
    /\ recov = NotEntered
    /\ calc = NotEntered

NoFrame == [fn |-> "none", step |-> "none", a |-> "None"]
Ev(e, f, a) == [ev |-> e, fn |-> f, arg |-> a]
AddEv(l, e) == [l EXCEPT ![Len(l)].evs = Append(@, e)]

Tokens == KeySet \cup {"all", "nosuch"}
RECURSIVE SeqsUpTo(_, _)
SeqsUpTo(S, n) ==
    IF n = 0 THEN { << >> }
    ELSE LET shorter == SeqsUpTo(S, n - 1) IN
         shorter \cup { Append(s, x) : s \in shorter, x \in S }

(***************************************************************************)
(* __main__: argparse has filled args; figlist is built.                   *)
(***************************************************************************)
Init ==
    /\ genfigs \in SeqsUpTo(Tokens, MaxToks)
    /\ list_figs \in BOOLEAN
    /\ loadable \in SUBSET Catalogs
    /\ mcq_dwarfs = << >>
    /\ pc = "start"
    /\ i = 0
    /\ j = 0
    /\ frame = NoFrame
    /\ openfigs = << >>
    /\ files = NoFiles
    /\ stdout = << >>
    /\ log = << >>
    /\ exc = "none"
    /\ retval = "None"
    /\ ncalls = 0
    /\ completed = << >>
    /\ NoLocals

\* if not genfigs: print(figlist.keys())
ShouldList_always(figs, flag) == TRUE
ShouldList(figs, flag) == figs = << >>

MainStart_listonly ==
    /\ pc = "start"
    /\ stdout' = IF ShouldList(genfigs, list_figs) \/ list_figs
                 THEN Append(stdout, figlist_keys) ELSE stdout
    /\ pc' = IF list_figs THEN "done" ELSE "loop"
    /\ i' = 1
    /\ UNCHANGED << locals, genfigs, list_figs, loadable, mcq_dwarfs, j, frame, openfigs, files,
                    log, exc, retval, ncalls, completed >>
MainStart ==
    /\ pc = "start"
    /\ stdout' = IF ShouldList(genfigs, list_figs)
                 THEN Append(stdout, figlist_keys) ELSE stdout
    /\ pc' = "loop"
    /\ i' = 1
    /\ UNCHANGED << locals, genfigs, list_figs, loadable, mcq_dwarfs, j, frame, openfigs, files,
                    log, exc, retval, ncalls, completed >>

\* entering a call of function f: the wrapper of a decorated function,
\* the function itself otherwise
Enter(f) ==
    /\ frame' = [fn |-> f, step |-> "enter", a |-> "None"]
    /\ log' = Append(log, [fn |-> f, evs |-> << >>])

IsAll_any(figname) == TRUE
IsAll(figname) == figname = "all"

\* for figname in genfigs: ... else: figlist[figname]()
MainFor ==
    /\ pc = "loop"
    /\ frame = NoFrame
    /\ IF i > Len(genfigs)
       THEN /\ pc' = "done"
            /\ UNCHANGED << j, frame, log, exc >>
       ELSE IF IsAll(genfigs[i])
       THEN /\ pc' = "sweep"
            /\ j' = 1
            /\ UNCHANGED << frame, log, exc >>
       ELSE IF genfigs[i] \in KeySet
       THEN /\ Enter(figlist_get(genfigs[i]))
            /\ UNCHANGED << pc, j, exc >>
       ELSE /\ pc' = "aborted"
            /\ exc' = "KeyError"
            /\ UNCHANGED << j, frame, log >>
    /\ UNCHANGED << locals, genfigs, list_figs, loadable, mcq_dwarfs, i, openfigs, files, stdout,
                    retval, ncalls, completed >>

\* for fig in figlist.values(): fig()   followed by break
MainSweep ==
    /\ pc = "sweep"
    /\ frame = NoFrame
    /\ IF j > Len(figlist_values)
       THEN /\ pc' = "done"
            /\ UNCHANGED << frame, log >>
       ELSE /\ Enter(figlist_values[j])
            /\ UNCHANGED pc
    /\ UNCHANGED << locals, genfigs, list_figs, loadable, mcq_dwarfs, i, j, openfigs, files,
                    stdout, exc, retval, ncalls, completed >>

(***************************************************************************)
(* How an invocation ends.  Nothing in __main__ catches an exception, so   *)
(* it ends the run; a direct call hands it to the calling session.         *)
(***************************************************************************)
AfterRaise_resume(p) == p
AfterRaise(p) == IF p = "session" THEN "session" ELSE "aborted"

Raise(f, e) ==
    /\ exc' = e
    /\ frame' = NoFrame
    /\ pc' = AfterRaise(pc)
    /\ i' = IF AfterRaise(pc) = "loop" THEN i + 1 ELSE i
    /\ j' = IF AfterRaise(pc) = "sweep" THEN j + 1 ELSE j
    /\ UNCHANGED << retval, completed >>

Return(f, v, fs) ==
    /\ retval' = v
    /\ frame' = NoFrame
    /\ i' = IF pc = "loop" THEN i + 1 ELSE i
    /\ j' = IF pc = "sweep" THEN j + 1 ELSE j
    /\ completed' = IF pc = "session"
                    THEN Append(completed, [fn |-> f, files |-> fs])
                    ELSE completed
    /\ UNCHANGED << pc, exc >>

(***************************************************************************)
(* write_plot(filename): the wrapper it puts around f.                     *)
(*     plt.close("all"); a = f(); filepath = build_filepath(...);          *)
(*     plt.savefig(filepath); return a                                     *)
(***************************************************************************)
WrapperClose ==
    /\ frame.step = "enter"
    /\ Decorated(frame.fn)
    /\ openfigs' = CloseAll(openfigs)
    /\ log' = AddEv(log, Ev("close_all", frame.fn, ""))
    /\ frame' = [frame EXCEPT !.step = "closed"]
    /\ UNCHANGED << locals, genfigs, list_figs, loadable, mcq_dwarfs, pc, i, j, files, stdout,
                    exc, retval, ncalls, completed >>

WrapperCall ==
    /\ frame.step = "closed"
    /\ LET r == RunBody(Body(frame.fn), 1, openfigs, loadable) IN
       /\ openfigs' = r.figs
       /\ log' = AddEv(log, Ev("call", frame.fn, r.exc))
       /\ IF r.exc = "none"
          THEN /\ frame' = [frame EXCEPT !.step = "called", !.a = r.ret]
               /\ UNCHANGED << pc, i, j, exc, retval, completed >>
          ELSE Raise(frame.fn, r.exc)
    /\ UNCHANGED << locals, genfigs, list_figs, loadable, mcq_dwarfs, files, stdout, ncalls >>

WrapperSave_skip ==
    /\ frame.step = "called"
    /\ frame' = [frame EXCEPT !.step = "saved"]
    /\ UNCHANGED << locals, genfigs, list_figs, loadable, mcq_dwarfs, pc, i, j,
                    openfigs, files, stdout, log, exc, retval, ncalls,
                    completed >>

WrapperSave ==
    /\ frame.step = "called"
    /\ LET filepath == build_filepath(FIGURE_PATH,
                           write_plot_filename(frame.fn), PLOT_SUFFIX) IN
       /\ files' = WriteFile(files, filepath, CurrentFigure(openfigs))
       /\ log' = AddEv(log, Ev("savefig", frame.fn, filepath))
    /\ openfigs' = AfterGcf(openfigs)
    /\ frame' = [frame EXCEPT !.step = "saved"]
    /\ UNCHANGED << locals, genfigs, list_figs, loadable, mcq_dwarfs, pc, i, j, stdout, exc,
                    retval, ncalls, completed >>

WrapperReturn ==
    /\ frame.step = "saved"
    /\ Return(frame.fn, frame.a, files)
    /\ log' = AddEv(log, Ev("return", frame.fn, frame.a))
    /\ UNCHANGED << locals, genfigs, list_figs, loadable, mcq_dwarfs, openfigs, files, stdout,
                    ncalls >>

\* a figure function that carries no decorator is called as it is
PlainCall ==
    /\ frame.step = "enter"
    /\ frame.fn \in FigureFns
    /\ ~Decorated(frame.fn)
    /\ LET r == RunBody(Body(frame.fn), 1, openfigs, loadable) IN
       /\ openfigs' = r.figs
       /\ log' = AddEv(log, Ev("call", frame.fn, r.exc))
       /\ IF r.exc = "none"
          THEN Return(frame.fn, r.ret, files)
          ELSE Raise(frame.fn, r.exc)
    /\ UNCHANGED << locals, genfigs, list_figs, loadable, mcq_dwarfs, files, stdout, ncalls >>

\* write_rapid_rotator_tables / write_marginal_rotator_tables, start to end
TableCall ==
    /\ frame.step = "enter"
    /\ frame.fn \in TableFns
    /\ LET missing == {"mcquillan_corrected_splitter", "read_dr14_allStar"}
                        \ loadable IN
       IF missing # {}
       THEN /\ log' = AddEv(log, Ev("call", frame.fn, "LoadError"))
            /\ Raise(frame.fn, "LoadError")
            /\ UNCHANGED files
       ELSE /\ log' = AddEv(log, Ev("call", frame.fn, "none"))
            /\ files' = TableFiles(frame.fn, files, mcq_dwarfs)
            /\ Return(frame.fn, "None",
                      TableFiles(frame.fn, files, mcq_dwarfs))
    /\ UNCHANGED << locals, genfigs, list_figs, loadable, mcq_dwarfs, openfigs,
                    stdout, ncalls >>

Next ==
    \/ MainStart
    \/ MainFor
    \/ MainSweep
    \/ WrapperClose
    \/ WrapperCall
    \/ WrapperSave
    \/ WrapperReturn
    \/ PlainCall

Spec == Init /\ [][Next]_vars

(***************************************************************************)
(* The module imported into a session: its functions are called directly,  *)
(* one after another, in one process and against one file system.  The     *)
(* functions called are the table writers, the figure functions that can   *)
(* return, and of those that stop at an unbound name one of each shape     *)
(* (with and without the decorator, before and after opening a figure).    *)
(***************************************************************************)
SessionFns ==
    { "Bruntt_vsini_comparison", "Pleiades_vsini_comparison",
      "plot_k_excess_rotation_apogee", "asteroseismic_sample_MK",
      "rapid_rotator_binarity", "plot_binarity_diagram",
      "write_rapid_rotator_tables", "write_marginal_rotator_tables" }

InitCalls ==
    /\ genfigs = << >>
    /\ list_figs = FALSE
    /\ loadable \in SUBSET Catalogs
    /\ mcq_dwarfs \in StarCatalogs(1)
    /\ pc = "session"
    /\ i = 0
    /\ j = 0
    /\ frame = NoFrame
    /\ openfigs = << >>
    /\ files = NoFiles
    /\ stdout = << >>
    /\ log = << >>
    /\ exc = "none"
    /\ retval = "None"
    /\ ncalls = 0
    /\ completed = << >>
    /\ NoLocals

Invoke(f) ==
    /\ pc = "session"
    /\ frame = NoFrame
    /\ ncalls < MaxCalls
    /\ ncalls' = ncalls + 1
    /\ Enter(f)
    /\ exc' = "none"
    /\ UNCHANGED << locals, genfigs, list_figs, loadable, mcq_dwarfs, pc, i, j, openfigs, files,
                    stdout, retval, completed >>

NextCalls ==
    \/ \E f \in SessionFns : Invoke(f)
    \/ WrapperClose
    \/ WrapperCall
    \/ WrapperSave
    \/ WrapperReturn
    \/ PlainCall
    \/ TableCall

SpecCalls == InitCalls /\ [][NextCalls]_vars

(***************************************************************************)
(* A table writer called on an arbitrary dwarf sample.                     *)
(***************************************************************************)
FigureCatalogs == {"bruntt_dr14_overlap", "Stauffer_APOGEE_overlap",
                   "full_apogee_splitter"}

InitTables ==
    /\ genfigs = << >>
    /\ list_figs = FALSE
    /\ loadable \in {FigureCatalogs \cup t :
                        t \in SUBSET (Catalogs \ FigureCatalogs)}
    /\ mcq_dwarfs \in StarCatalogs(MaxStars)
    /\ pc = "session"
    /\ i = 0
    /\ j = 0
    /\ frame = NoFrame
    /\ openfigs = << >>
    /\ files = NoFiles
    /\ stdout = << >>
    /\ log = << >>
    /\ exc = "none"
    /\ retval = "None"
    /\ ncalls = 0
    /\ completed = << >>
    /\ NoLocals

InvokeTable == \E f \in TableFns : ncalls = 0 /\ Invoke(f)

NextTables ==
    \/ InvokeTable
    \/ TableCall

SpecTables == InitTables /\ [][NextTables]_vars

(***************************************************************************)
(* Reading the call log.  An invocation is one                             *)
(* entry of the log: the function entered and what was called inside.      *)
(***************************************************************************)
InvokeIdx == DOMAIN log
Segment(k) == log[k].evs
Ended(k) == k < Len(log) \/ frame = NoFrame
SavesIn(k) ==
    Cardinality({m \in DOMAIN log[k].evs : log[k].evs[m].ev = "savefig"})
Raised(k) ==
    \E m \in DOMAIN log[k].evs :
        log[k].evs[m].ev = "call" /\ log[k].evs[m].arg # "none"
CompletedNormally(k) ==
    /\ Ended(k)
    /\ \E m \in DOMAIN log[k].evs :
        log[k].evs[m].ev = "call" /\ log[k].evs[m].arg = "none"
Invoked == [k \in DOMAIN log |-> log[k].fn]
RunOver == pc \in {"done", "aborted"}
IsPrefix(s, t) == Len(s) <= Len(t) /\ s = SubSeq(t, 1, Len(s))

\* the file each figure function is documented to leave
ExpectedPath(f) ==
    CASE f = "Bruntt_vsini_comparison" -> "papers/rotletter18/fig/Bruntt_comp.pdf"
      [] f = "Pleiades_vsini_comparison" -> "papers/rotletter18/fig/Pleiades_comp.pdf"
      [] f = "asteroseismic_sample_MK" -> "papers/rotletter18/fig/astero.pdf"
      [] f = "cool_dwarf_mk" -> "papers/rotletter18/fig/cool_mk_sample.pdf"
      [] f = "asteroseismic_rotation_analysis" -> "papers/rotletter18/fig/astero_rot.pdf"
      [] f = "cool_dwarf_rotation_analysis" -> "papers/rotletter18/fig/cool_rot.pdf"
      [] f = "plot_rr_fractions" -> "papers/rotletter18/fig/detection_fraction.pdf"
      [] f = "plot_k_excess_rotation_apogee" -> "papers/rotletter18/fig/binary_cut.pdf"
      [] OTHER -> "papers/rotletter18/fig/binarity.pdf"
ExpectedReturn(f) == IF f = "Bruntt_vsini_comparison" THEN "cov" ELSE "None"

(***************************************************************************)
(* C1.  With the token `all` (and every catalog loadable) the finished run *)
(* has invoked every function of figlist exactly once, in insertion order. *)
(***************************************************************************)
C1_AllSweepsRegistry ==
    (RunOver /\ loadable = Catalogs /\ genfigs # << >> /\ genfigs[1] = "all")
        => Invoked = << "Bruntt_vsini_comparison", "Pleiades_vsini_comparison",
                        "asteroseismic_sample_MK", "cool_dwarf_mk",
                        "asteroseismic_rotation_analysis",
                        "cool_dwarf_rotation_analysis", "plot_rr_fractions",
                        "plot_binarity_diagram" >>

(***************************************************************************)
(* C2.  Once __main__ is past its `if not genfigs`, the figure names have  *)
(* been printed exactly when the token list is empty, and with an empty    *)
(* token list no function is ever invoked.                                 *)
(***************************************************************************)
C2_ListOnlyWhenEmpty ==
    pc # "start" =>
        IF genfigs = << >>
        THEN /\ stdout = << << "Bruntt", "SH", "asterosamp", "coolsamp",
                               "asterorot", "coolrot", "rrfracs", "binarity" >> >>
             /\ Invoked = << >>
        ELSE stdout = << >>
C2_Witness == pc = "done" /\ genfigs = << >> /\ Len(stdout) = 1

(***************************************************************************)
(* C3.  As claimed: every ended invocation of a write_plot wrapper has     *)
(* made exactly one savefig, also when the wrapped function raised.        *)
(***************************************************************************)
C3_OneSavePerInvocation ==
    \A k \in InvokeIdx :
        (Decorated(log[k].fn) /\ Ended(k)) => SavesIn(k) = 1
(***************************************************************************)
(* C3 amended.  An ended invocation of a write_plot wrapper has made       *)
(* exactly one savefig when the wrapped function returned and none when    *)
(* it raised.                                                              *)
(***************************************************************************)
C3_OneSavePerReturn ==
    \A k \in InvokeIdx :
        (Decorated(log[k].fn) /\ Ended(k)) =>
            SavesIn(k) = IF Raised(k) THEN 0 ELSE 1
C3_Witness ==
    \E k, m \in InvokeIdx :
        /\ Decorated(log[k].fn) /\ Ended(k) /\ ~Raised(k) /\ SavesIn(k) = 1
        /\ Decorated(log[m].fn) /\ Ended(m) /\ Raised(m) /\ SavesIn(m) = 0

(***************************************************************************)
(* C4.  Every invocation of a write_plot wrapper logs, in this order:      *)
(* close all figures, call the wrapped function, save to the path fixed by *)
(* the decoration, return the wrapped function's value; an invocation      *)
(* whose wrapped function raised stops after the call.                     *)
(***************************************************************************)
C4_WrapperOrder ==
    \A k \in InvokeIdx :
        Decorated(log[k].fn) =>
            LET f == log[k].fn
                full == << Ev("close_all", f, ""), Ev("call", f, "none"),
                           Ev("savefig", f, ExpectedPath(f)),
                           Ev("return", f, ExpectedReturn(f)) >>
            IN IF Raised(k)
               THEN /\ Len(Segment(k)) = 2
                    /\ Segment(k)[1] = Ev("close_all", f, "")
                    /\ Segment(k)[2].ev = "call"
               ELSE /\ IsPrefix(Segment(k), full)
                    /\ Ended(k) => (Segment(k) = full)
C4_Witness ==
    /\ frame = NoFrame
    /\ retval = "cov"
    /\ \E k, m \in InvokeIdx :
        /\ k < m
        /\ log[k].fn = "Bruntt_vsini_comparison" /\ Len(Segment(k)) = 4
        /\ log[m].fn = "Bruntt_vsini_comparison" /\ Len(Segment(m)) = 4

(***************************************************************************)
(* C5.  A function that raises is the last thing the run does: the run is  *)
(* aborted with that exception, nothing more can happen, no figure was     *)
(* saved for the failing invocation, and every file saved before is still  *)
(* there.  An unregistered token aborts the run with KeyError before any   *)
(* later token is looked at.                                               *)
(***************************************************************************)
C5_AbortOnFailure ==
    /\ \A k \in DOMAIN log :
          \A m \in DOMAIN log[k].evs :
              (log[k].evs[m].ev = "call" /\ log[k].evs[m].arg # "none") =>
                  /\ k = Len(log)
                  /\ m = Len(log[k].evs)
                  /\ pc = "aborted"
                  /\ exc = log[k].evs[m].arg
    /\ \A m \in DOMAIN genfigs : m < i => genfigs[m] \in KeySet
    /\ pc = "aborted" =>
          /\ frame = NoFrame
          /\ ~ENABLED Next
          /\ i \in DOMAIN genfigs
          /\ IF exc = "KeyError"
             THEN genfigs[i] \notin KeySet \cup {"all"} /\ Len(Invoked) = i - 1
             ELSE /\ SavesIn(Len(log)) = 0
                  /\ Len(Invoked) = IF genfigs[i] = "all" THEN i - 1 + j ELSE i
          /\ \A k \in DOMAIN log :
                \A m \in DOMAIN log[k].evs :
                    log[k].evs[m].ev = "savefig"
                        => log[k].evs[m].arg \in DOMAIN files
C5_Witness ==
    /\ pc = "aborted"
    /\ exc = "NameError"
    /\ Len(Invoked) = 2
    /\ "papers/rotletter18/fig/Bruntt_comp.pdf" \in DOMAIN files

(***************************************************************************)
(* C6.  A run given one registered token, with every catalog loadable,     *)
(* ends without an exception.                                              *)
(***************************************************************************)
C6_EveryTokenCompletes ==
    (RunOver /\ loadable = Catalogs /\ Len(genfigs) = 1 /\ genfigs[1] \in KeySet)
        => (pc = "done" /\ exc = "none")

(***************************************************************************)
(* C7.  As claimed: a finished run has invoked exactly one function.       *)
(***************************************************************************)
C7_ExactlyOneInvocation == RunOver => Len(Invoked) = 1
(***************************************************************************)
(* C7 amended.  A finished run has invoked at most one function per token  *)
(* unless a token is `all`: none for an empty token list, and exactly the  *)
(* function the token names for a single registered token.                 *)
(***************************************************************************)
C7_OneInvocationPerToken ==
    RunOver =>
        /\ genfigs = << >> => Invoked = << >>
        /\ (\A m \in DOMAIN genfigs : genfigs[m] # "all")
              => Len(Invoked) <= Len(genfigs)
        /\ (Len(genfigs) = 1 /\ genfigs[1] \in KeySet)
              => \E k \in DOMAIN figlist :
                    /\ figlist[k].key = genfigs[1]
                    /\ Invoked = << figlist[k].fn >>
C7_Witness ==
    /\ pc = "done"
    /\ genfigs = << "SH" >>
    /\ Invoked = << "Pleiades_vsini_comparison" >>

(***************************************************************************)
(* C8.  A registered figure function that was invoked from the command     *)
(* line and completed normally has saved its PDF under the figures         *)
(* directory, and the file is on disk.                                     *)
(***************************************************************************)
C8_RegisteredSavesPdf ==
    \A k \in InvokeIdx :
        CompletedNormally(k) =>
            /\ \E m \in DOMAIN log[k].evs :
                  log[k].evs[m] = Ev("savefig", log[k].fn, ExpectedPath(log[k].fn))
            /\ ExpectedPath(log[k].fn) \in DOMAIN files
C8_Witness ==
    /\ pc = "done"
    /\ genfigs = << "Bruntt", "SH" >>
    /\ DOMAIN files = { "papers/rotletter18/fig/Bruntt_comp.pdf",
                        "papers/rotletter18/fig/Pleiades_comp.pdf" }

(***************************************************************************)
(* C9.  When the same function completes twice in a row on the same        *)
(* inputs, the files on disk and what they hold after the second           *)
(* invocation are those after the first.                                   *)
(***************************************************************************)
C9_RerunIdempotent ==
    \A k \in DOMAIN completed :
        (k > 1 /\ completed[k].fn = completed[k - 1].fn)
            => completed[k].files = completed[k - 1].files
C9_Witness ==
    /\ Len(completed) = 2
    /\ completed[1].fn = "plot_k_excess_rotation_apogee"
    /\ completed[2].fn = "plot_k_excess_rotation_apogee"
    /\ files # NoFiles

(***************************************************************************)
(* C10.  The full table write_rapid_rotator_tables leaves in table1.txt    *)
(* has its rows in ascending order of the KIC identifier, holds exactly    *)
(* the stars it selected, and has the eight columns kepid, APOGEE_ID,      *)
(* SDSS-Teff, kmag, M_K, Corrected K Excess, Prot, FE_H in this order,     *)
(* written under KIC, APOGEE_ID, Teff, K, MK, DELTA_K, Prot, [Fe/H].       *)
(***************************************************************************)
C10_FullTableSorted ==
    \A k \in DOMAIN completed :
        completed[k].fn = "write_rapid_rotator_tables" =>
            LET t == completed[k].files["papers/rotletter18/tables/table1.txt"]
                cols == << "kepid", "APOGEE_ID", "SDSS-Teff", "kmag", "M_K",
                           "Corrected K Excess", "Prot", "FE_H" >>
            IN /\ t.names = << "KIC", "APOGEE_ID", "Teff", "K", "MK",
                               "DELTA_K", "Prot", "[Fe/H]" >>
               /\ \A r \in DOMAIN t.rows :
                     /\ Len(t.rows[r]) = 8
                     /\ \A c \in 1..8 : t.rows[r][c].col = cols[c]
                     /\ r > 1 => t.rows[r - 1][1].v <= t.rows[r][1].v
               /\ {t.rows[r][1].v : r \in DOMAIN t.rows}
                     = {mcq_dwarfs[n].kepid : n \in
                          {n \in DOMAIN mcq_dwarfs :
                              mcq_dwarfs[n].Prot > 15 /\ mcq_dwarfs[n].Prot <= 70}}
               /\ Len(t.rows) = Cardinality({t.rows[r][1].v : r \in DOMAIN t.rows})
C10_Witness ==
    /\ Len(completed) = 1
    /\ completed[1].fn = "write_rapid_rotator_tables"
    /\ Len(mcq_dwarfs) = 2
    /\ mcq_dwarfs[1].kepid > mcq_dwarfs[2].kepid
    /\ Len(files["papers/rotletter18/tables/table1.txt"].rows) = 2

(***************************************************************************)
(* Function bodies followed statement by statement.  While one of them     *)
(* runs, the command line, the figures and the files are left alone.       *)
(***************************************************************************)
script == << genfigs, list_figs, loadable, mcq_dwarfs, pc, i, j, frame,
             openfigs, files, stdout, log, exc, retval, ncalls, completed >>

\* The interpreter with the module imported and nothing called yet.
Imported ==
    /\ genfigs = << >>
    /\ list_figs = FALSE
    /\ loadable = Catalogs
    /\ mcq_dwarfs = << >>
    /\ pc = "session"
    /\ i = 0
    /\ j = 0
    /\ frame = NoFrame
    /\ openfigs = << >>
    /\ files = NoFiles
    /\ stdout = << >>
    /\ log = << >>
    /\ exc = "none"
    /\ retval = "None"
    /\ ncalls = 0
    /\ completed = << >>

(***************************************************************************)
(* Percentile binning (metallicity_corrected_excesses,                     *)
(* spec_temperature_correction).  Column values are integers (hundredths   *)
(* of a dex, kelvin); a bin edge interpolated between two values is kept   *)
(* exactly by storing every edge multiplied by the number of bins.         *)
(***************************************************************************)
MaxSample == 3
MaxValue == 2

BinFns == {"metallicity_corrected_excesses", "spec_temperature_correction"}

\* np.linspace(0, 100, 6+1, endpoint=True) and np.linspace(0, 100, 5+1, ...)
NumBins(f) == IF f = "metallicity_corrected_excesses" THEN 6 ELSE 5

\* coolsamp["FE_H"] / coolsamp["TEFF"]: one value per star of the subsample
Samples == UNION {[1..n -> 0..MaxValue] : n \in 1..MaxSample}

RECURSIVE InsertValue(_, _)
InsertValue(sorted, v) ==
    IF sorted = << >> THEN << v >>
    ELSE IF v <= Head(sorted) THEN << v >> \o sorted
    ELSE << Head(sorted) >> \o InsertValue(Tail(sorted), v)

RECURSIVE SortValues(_)
SortValues(s) ==
    IF s = << >> THEN << >> ELSE InsertValue(SortValues(Tail(s)), Head(s))

\* np.percentile(values, np.linspace(0, 100, nb+1)) with numpy's linear
\* interpolation: edge k (counted from 0) sits at the virtual index
\* k*(n-1)/nb of the sorted values.  The result holds nb times each edge.
percentile(values, nb) ==
    LET a == SortValues(values)
        n == Len(a)
    IN  [k \in 1..(nb + 1) |->
            LET pos == (k - 1) * (n - 1)
                lo == pos \div nb
                r == pos % nb
            IN  IF r = 0 THEN nb * a[lo + 1]
                ELSE nb * a[lo + 1] + r * (a[lo + 2] - a[lo + 1])]

\* np.digitize(x, edges) with the default right=False: index i means
\* edges[i-1] <= x < edges[i], that is, the number of edges <= x.
digitize(x, edges, nb) ==
    [s \in 1..Len(x) |->
        Cardinality({k \in 1..Len(edges) : edges[k] <= nb * x[s]})]

\* coolsamp[bin_indices == ind]
tablebin(indices, ind) == {s \in 1..Len(indices) : indices[s] = ind}

InitBins ==
    /\ Imported
    /\ bins \in {[fn |-> f, step |-> "subsample", coolsamp |-> s,
                  edges |-> << >>, indices |-> << >>, ind |-> 0,
                  weights |-> << >>] : f \in BinFns, s \in Samples}
    /\ fit = NotEntered
    /\ splitters = NotEntered
    /\ recov = NotEntered
    /\ calc = NotEntered

\* bin_edges = np.percentile(coolsamp[col], np.linspace(0, 100, nb+1))
BinEdges ==
    /\ bins.fn \in BinFns
    /\ bins.step = "subsample"
    /\ bins' = [bins EXCEPT !.step = "edges",
                    !.edges = percentile(bins.coolsamp, NumBins(bins.fn))]
    /\ UNCHANGED << calc, script, fit, splitters, recov >>

\* bin_indices = np.digitize(coolsamp[col], bin_edges)
BinDigitize ==
    /\ bins.fn \in BinFns
    /\ bins.step = "edges"
    /\ bins' = [bins EXCEPT !.step = "loop", !.ind = 1,
                    !.indices = digitize(bins.coolsamp, bins.edges,
                                         NumBins(bins.fn))]
    /\ UNCHANGED << calc, script, fit, splitters, recov >>

\* for ind in range(1, len(bin_edges)): tablebin = coolsamp[indices == ind];
\* np.percentile(tablebin[...], 75); ...; weights[ind-1] = len(tablebin).
\* np.percentile of an empty column raises IndexError or gives nan,
\* depending on the numpy installed.
BinLoop ==
    /\ bins.fn \in BinFns
    /\ bins.step = "loop"
    /\ bins.ind < Len(bins.edges)
    /\ LET members == tablebin(bins.indices, bins.ind)
       IN  \/ /\ members = {}
              /\ bins' = [bins EXCEPT !.step = "IndexError"]
           \/ bins' = [bins EXCEPT !.ind = @ + 1,
                           !.weights = Append(@, Cardinality(members))]
    /\ UNCHANGED << calc, script, fit, splitters, recov >>

\* range(1, len(bin_edges)) is exhausted
BinLoopEnd ==
    /\ bins.fn \in BinFns
    /\ bins.step = "loop"
    /\ bins.ind = Len(bins.edges)
    /\ bins' = [bins EXCEPT !.step = "binned"]
    /\ UNCHANGED << calc, script, fit, splitters, recov >>

NextBins ==
    \/ BinEdges
    \/ BinDigitize
    \/ BinLoop
    \/ BinLoopEnd

SpecBins == InitBins /\ [][NextBins]_vars

RECURSIVE SumSeq(_)
SumSeq(s) == IF s = << >> THEN 0 ELSE Head(s) + SumSeq(Tail(s))

\* C11: once the sample is digitized every star has a bin index in
\* 1..len(edges)-1, the range the loop visits, and when the loop is over the
\* per-bin counts sum to the size of the input sample.
C11_EveryStarInOneBin ==
    /\ bins.step \in {"loop", "IndexError", "binned"} =>
           \A s \in 1..Len(bins.coolsamp) :
               bins.indices[s] \in 1..(Len(bins.edges) - 1)
    /\ bins.step = "binned" =>
           SumSeq(bins.weights) = Len(bins.coolsamp)

(***************************************************************************)
(* binary_fit: the loop over the injected temperature scatters.            *)
(***************************************************************************)
MaxTrials == 4

\* sigmas = np.arange(50, 150, 1), cut to the first MaxTrials entries
sigmas == [t \in 1..MaxTrials |-> 49 + t]

\* fitter.fit_info["exit_mode"] of scipy's SLSQP: 0 is success, 8 is
\* "positive directional derivative for linesearch", 9 is "iteration limit"
ExitModes == {0, 8, 9}

InitFit ==
    /\ Imported
    /\ bins = NotEntered
    /\ fit = [fn |-> "binary_fit", step |-> "for", t |-> 1, exit_mode |-> 0,
              modes |-> << >>, real_scatter |-> << >>,
              measured_scatter |-> << >>, printed |-> << >>]
    /\ splitters = NotEntered
    /\ recov = NotEntered
    /\ calc = NotEntered

\* empfitter = fitter(dualmodel, ...); print(fitter.fit_info["exit_mode"])
FitTrial ==
    /\ fit.fn = "binary_fit"
    /\ fit.step = "for"
    /\ fit.t <= Len(sigmas)
    /\ \E m \in ExitModes :
           fit' = [fit EXCEPT !.step = "if", !.exit_mode = m,
                       !.modes = Append(@, m),
                       !.printed = Append(@, [t |-> fit.t, what |-> "exit_mode"])]
    /\ UNCHANGED << calc, script, bins, splitters, recov >>

\* if fitter.fit_info["exit_mode"] != 0: print(message)
\* else: real_scatter.append(...); measured_scatter.append(...)
FitRecord_always ==
    /\ fit.fn = "binary_fit"
    /\ fit.step = "if"
    /\ fit' = [fit EXCEPT !.step = "for", !.t = @ + 1,
                   !.real_scatter = Append(@, sigmas[fit.t]),
                   !.measured_scatter = Append(@, sigmas[fit.t])]
    /\ UNCHANGED << calc, script, bins, splitters, recov >>
FitRecord ==
    /\ fit.fn = "binary_fit"
    /\ fit.step = "if"
    /\ IF fit.exit_mode # 0
       THEN fit' = [fit EXCEPT !.step = "for", !.t = @ + 1,
                        !.printed = Append(@, [t |-> fit.t, what |-> "message"])]
       ELSE fit' = [fit EXCEPT !.step = "for", !.t = @ + 1,
                        !.real_scatter = Append(@, sigmas[fit.t]),
                        !.measured_scatter = Append(@, sigmas[fit.t])]
    /\ UNCHANGED << calc, script, bins, splitters, recov >>

\* the loop is exhausted: polycoeff = np.polyfit(measured_scatter, real_scatter, 1)
FitLoopEnd ==
    /\ fit.fn = "binary_fit"
    /\ fit.step = "for"
    /\ fit.t > Len(sigmas)
    /\ fit' = [fit EXCEPT !.step = "polyfit"]
    /\ UNCHANGED << calc, script, bins, splitters, recov >>

NextFit ==
    \/ FitTrial
    \/ FitRecord
    \/ FitLoopEnd

SpecFit == InitFit /\ [][NextFit]_vars

\* Trials whose if/else has been executed.
TrialsDone == IF fit.step = "if" THEN fit.t - 1 ELSE Len(fit.modes)
Range(s) == {s[k] : k \in 1..Len(s)}

\* C12: a trial whose fit does not converge (exit_mode # 0) prints the
\* fitter's message and raises nothing: the loop goes on, the trial is in
\* neither real_scatter nor measured_scatter, and both lists always have the
\* same length, the number of converged trials so far.
C12_NonConvergedTrialSkipped ==
    fit.fn = "binary_fit" =>
        LET converged == {t \in 1..TrialsDone : fit.modes[t] = 0}
        IN  /\ Len(fit.real_scatter) = Cardinality(converged)
            /\ Len(fit.measured_scatter) = Cardinality(converged)
            /\ Range(fit.real_scatter) = {sigmas[t] : t \in converged}
            /\ Range(fit.measured_scatter) = {sigmas[t] : t \in converged}
            /\ \A t \in 1..TrialsDone :
                   fit.modes[t] # 0 <=>
                       [t |-> t, what |-> "message"] \in Range(fit.printed)
            /\ fit.step \in {"for", "if", "polyfit"}

\* A failed trial followed by a converged one, and the loop has ended.
C12_Witness ==
    /\ fit.fn = "binary_fit"
    /\ fit.step = "polyfit"
    /\ \E t \in 1..(TrialsDone - 1) :
           fit.modes[t] # 0 /\ fit.modes[t + 1] = 0

(***************************************************************************)
(* What a command line asks for, read off the loop of __main__ without the *)
(* parsed --list-figs flag: the functions the tokens name, the registry    *)
(* for `all`, nothing after the first `all`.                               *)
(***************************************************************************)
RECURSIVE Expand(_)
Expand(toks) ==
    IF toks = << >> THEN << >>
    ELSE IF Head(toks) = "all" THEN figlist_values
    ELSE << figlist_get(Head(toks)) >> \o Expand(Tail(toks))

\* a call of f ends in an exception
FnRaises(f, env) == RunBody(Body(f), 1, << >>, env).exc # "none"

\* the calls made one after the other until one raises
RECURSIVE CallsUntilRaise(_, _)
CallsUntilRaise(fns, env) ==
    IF fns = << >> THEN << >>
    ELSE IF FnRaises(Head(fns), env) THEN << Head(fns) >>
    ELSE << Head(fns) >> \o CallsUntilRaise(Tail(fns), env)

\* the tokens before the first one that is no key of figlist and not `all`
RECURSIVE KnownPrefix(_)
KnownPrefix(toks) ==
    IF toks = << >> \/ Head(toks) \notin KeySet \cup {"all"} THEN << >>
    ELSE << Head(toks) >> \o KnownPrefix(Tail(toks))

ExpectedCalls(toks, env) == CallsUntilRaise(Expand(KnownPrefix(toks)), env)

\* C16: with every token a registered key or `all` and every catalog
\* loadable, a finished run has made one invocation per token in
\* command-line order, the registry swept once in place of the first `all`
\* and nothing after it.
C16_TokensInOrder ==
    (RunOver /\ loadable = Catalogs
             /\ \A m \in DOMAIN genfigs : genfigs[m] \in KeySet \cup {"all"})
        => Invoked = Expand(genfigs)

\* C17: the run does not depend on --list-figs: the functions invoked are
\* at every moment a prefix of, and at the end equal to, the calls the
\* tokens and the catalogs determine, and the figure names are printed
\* exactly when the token list is empty; neither mentions the flag.
C17_ListFigsNoInfluence ==
    /\ IsPrefix(Invoked, ExpectedCalls(genfigs, loadable))
    /\ RunOver => Invoked = ExpectedCalls(genfigs, loadable)
    /\ pc # "start" =>
           stdout = IF genfigs = << >> THEN << figlist_keys >> ELSE << >>
    /\ pc = "start" => stdout = << >>

\* A run with --list-figs and tokens: the functions ran, no list printed.
C17_Witness ==
    /\ list_figs
    /\ pc = "done"
    /\ genfigs = << "SH", "Bruntt" >>
    /\ Invoked = << "Pleiades_vsini_comparison", "Bruntt_vsini_comparison" >>
    /\ stdout = << >>

(***************************************************************************)
(* The table writers on samples longer than the abridged LaTeX table.      *)
(***************************************************************************)
MaxRows == 6

\* Dwarf samples of up to n stars with identifiers 1..m in ascending or
\* descending order, rotated; every star has a period of 4 or 9 days, and
\* the stars with an even identifier were observed by APOGEE.
LongCatalogs(n) ==
    UNION { { [k \in 1..m |->
                 LET id == IF down THEN m - ((k + shift - 1) % m)
                           ELSE ((k + shift - 1) % m) + 1
                 IN  [kepid |-> id, Prot |-> ps[k], apo |-> id % 2 = 0]] :
              shift \in 0..(m - 1), down \in BOOLEAN,
              ps \in [1..m -> {40, 90}] } : m \in 1..n }

InitLongTables ==
    /\ genfigs = << >>
    /\ list_figs = FALSE
    /\ loadable = Catalogs
    /\ mcq_dwarfs \in LongCatalogs(MaxRows)
    /\ pc = "session"
    /\ i = 0
    /\ j = 0
    /\ frame = NoFrame
    /\ openfigs = << >>
    /\ files = NoFiles
    /\ stdout = << >>
    /\ log = << >>
    /\ exc = "none"
    /\ retval = "None"
    /\ ncalls = 0
    /\ completed = << >>
    /\ NoLocals

SpecLongTables == InitLongTables /\ [][NextTables]_vars

\* Reading the table files.
TablesDir == "papers/rotletter18/tables/"
KepidsOf(rows) == {rows[r][1].v : r \in DOMAIN rows}
RapidStars ==
    {n \in DOMAIN mcq_dwarfs : mcq_dwarfs[n].Prot > 15 /\ mcq_dwarfs[n].Prot <= 70}
MarginalStars ==
    {n \in DOMAIN mcq_dwarfs : mcq_dwarfs[n].Prot > 70 /\ mcq_dwarfs[n].Prot < 110}
Min(a, b) == IF a < b THEN a ELSE b

\* The .tex file of a table holds the min(5, N) rows with the smallest
\* identifiers, in ascending order, and the .txt file all N rows.
AbridgedAndFull(base, stars) ==
    (TablesDir \o base \o ".txt") \in DOMAIN files =>
        LET tex == files[TablesDir \o base \o ".tex"].rows
            txt == files[TablesDir \o base \o ".txt"].rows
            N == Cardinality(stars)
        IN  /\ Len(txt) = N
            /\ KepidsOf(txt) = {mcq_dwarfs[n].kepid : n \in stars}
            /\ Len(tex) = Min(5, N)
            /\ \A r \in DOMAIN tex : r > 1 => tex[r - 1][1].v < tex[r][1].v
            /\ \A a \in KepidsOf(tex) :
                   \A b \in KepidsOf(txt) \ KepidsOf(tex) : a < b
            /\ KepidsOf(tex) \subseteq KepidsOf(txt)

\* C18: table1.tex holds exactly the first min(5, N) rows of the
\* kepid-sorted table of rapid rotators, the rows with the smallest
\* identifiers, and table1.txt all N rows; the same for table2.tex and
\* table2.txt with the marginal rotators.
C18_AbridgedLatexFullAscii ==
    /\ AbridgedAndFull("table1", RapidStars)
    /\ AbridgedAndFull("table2", MarginalStars)

\* Six rapid rotators: five rows in table1.tex, six in table1.txt.
C18_Witness ==
    /\ (TablesDir \o "table1.txt") \in DOMAIN files
    /\ Cardinality(RapidStars) = 6
    /\ mcq_dwarfs[1].kepid > mcq_dwarfs[2].kepid
    /\ Len(files[TablesDir \o "table1.tex"].rows) = 5
    /\ Len(files[TablesDir \o "table1.txt"].rows) = 6

\* C19: a dwarf is in the rapid-rotator table iff 1.5 < Prot <= 7 and in
\* the marginal-rotator table iff 7 < Prot < 11 (periods in tenths of a
\* day): no star is in both tables, a star with Prot = 7 is only in the
\* rapid table, stars with Prot = 1.5 or Prot = 11 are in neither.
C19_PeriodSelection ==
    LET t1 == TablesDir \o "table1.txt"
        t2 == TablesDir \o "table2.txt"
        in1 == IF t1 \in DOMAIN files THEN KepidsOf(files[t1].rows) ELSE {}
        in2 == IF t2 \in DOMAIN files THEN KepidsOf(files[t2].rows) ELSE {}
    IN  /\ t1 \in DOMAIN files =>
               in1 = {mcq_dwarfs[n].kepid : n \in RapidStars}
        /\ t2 \in DOMAIN files =>
               in2 = {mcq_dwarfs[n].kepid : n \in MarginalStars}
        /\ in1 \cap in2 = {}
        /\ \A n \in DOMAIN mcq_dwarfs :
               /\ mcq_dwarfs[n].Prot = 70 =>
                      /\ mcq_dwarfs[n].kepid \notin in2
                      /\ t1 \in DOMAIN files => mcq_dwarfs[n].kepid \in in1
               /\ mcq_dwarfs[n].Prot \in {15, 110} =>
                      mcq_dwarfs[n].kepid \notin in1 \cup in2

\* Both tables written from a sample whose star has Prot = 7 exactly.
C19_Witness ==
    /\ (TablesDir \o "table1.txt") \in DOMAIN files
    /\ (TablesDir \o "table2.txt") \in DOMAIN files
    /\ Len(mcq_dwarfs) = 1
    /\ mcq_dwarfs[1].Prot = 70
    /\ Len(files[TablesDir \o "table1.txt"].rows) = 1
    /\ Len(files[TablesDir \o "table2.txt"].rows) = 0

AsciiTables ==
    {TablesDir \o "table1.txt", TablesDir \o "table2.txt"} \cap DOMAIN files

\* C20: in table1.txt and table2.txt a masked value is written as an empty
\* field in the APOGEE_ID column and in the [Fe/H] column, and the fill
\* rule given to the writer names these columns as they are written.
C20_FillRuleNamesWrittenColumns ==
    \A p \in AsciiTables :
        LET t == files[p] IN
        /\ \A r \in DOMAIN t.text : \A c \in DOMAIN t.names :
               (t.names[c] \in {"APOGEE_ID", "[Fe/H]"} /\ t.text[r][c].masked)
                   => t.text[r][c].text = ""
        /\ \A k \in DOMAIN t.fill :
               affect_cols(t.fill[k], t.names) = {"APOGEE_ID", "[Fe/H]"}

\* C20 amended: in table1.txt and table2.txt the masked values are those of
\* the APOGEE_ID and [Fe/H] columns of the stars without an APOGEE match,
\* and each is written as an empty field; the rule given with fill_values=
\* applies to no written column (it holds one tuple, not column names, and
\* "[FE_H]" is not the written name "[Fe/H]"), so the empty field is the
\* writer's own rule for masked values.
C20_MaskedWrittenEmpty ==
    \A p \in AsciiTables :
        LET t == files[p] IN
        /\ \A r \in DOMAIN t.text : \A c \in DOMAIN t.names :
               /\ t.text[r][c].masked => t.text[r][c].text = ""
               /\ t.text[r][c].masked <=>
                      /\ t.names[c] \in {"APOGEE_ID", "[Fe/H]"}
                      /\ \E n \in DOMAIN mcq_dwarfs :
                             /\ mcq_dwarfs[n].kepid = t.rows[r][1].v
                             /\ ~mcq_dwarfs[n].apo
        /\ \A k \in DOMAIN t.fill : affect_cols(t.fill[k], t.names) = {}
        /\ Len(t.fill) = 1

\* table1.txt with a star that has no APOGEE match.
C20_Witness ==
    /\ (TablesDir \o "table1.txt") \in DOMAIN files
    /\ LET t == files[TablesDir \o "table1.txt"] IN
       /\ Len(t.text) = 2
       /\ t.text[1][2].masked
       /\ t.text[1][8].text = ""
       /\ ~t.text[2][2].masked

(***************************************************************************)
(* Splitters.  A splitter is followed by the names the script adds to it:  *)
(* the criteria its split_* calls create and the data columns it assigns.  *)
(* What the collaborator modules put on a splitter is not tracked.         *)
(* Each function that creates criteria or columns is the sequence of its   *)
(* splitter statements; a reference ['~X', ...] is listed by the names X.  *)
(***************************************************************************)
MaxSplitCalls == 2

SplitFns ==
    { "metallicity_corrected_excesses", "plot_teff_prov",
      "eclipsing_binary_inferred_distribution", "asteroseismic_sample_MK",
      "asteroseismic_logg_Gaia_comparison", "plot_k_excess_rotation_apogee",
      "plot_mcq_binarity_histogram", "plot_apogee_binarity_histogram",
      "APOGEE_metallicity_agreement", "APOGEE_metallicity_slice",
      "rapid_rotator_HR_diagram" }

\* the loaders of data_cache the functions above call
CacheKeys == { "apogee_splitter_with_DSEP", "clean_apogee_splitter",
               "eb_splitter_with_DSEP", "full_apogee_splitter" }

\* the local variables that hold a splitter
SplitVars == { "targs", "clean", "eb_split", "coolsplitter", "clean_splitter",
               "apokasc", "astero_samp", "apo", "good_phot", "mcq", "cools",
               "cools_mk", "apo_splitter" }

SOp(o, sp, arg, names) == [op |-> o, sp |-> sp, arg |-> arg, names |-> names]

SplitterOps(f) ==
    CASE f = "metallicity_corrected_excesses" ->
           << SOp("cache", "targs", "apogee_splitter_with_DSEP", {}),
              SOp("subsample", "targs", "", {"Dwarfs", "APOGEE MetCor Teff"}) >>
      [] f = "plot_teff_prov" ->
           << SOp("cache", "clean", "clean_apogee_splitter", {}),
              SOp("column", "clean", "", {"Spec K"}),
              SOp("column", "clean", "", {"Phot K"}) >>
      [] f = "eclipsing_binary_inferred_distribution" ->
           << SOp("cache", "eb_split", "eb_splitter_with_DSEP", {}),
              SOp("subsample", "eb_split", "",
                  {"Dwarfs", "Right Statistics Teff"}),
              SOp("new", "coolsplitter", "", {}),
              SOp("split", "coolsplitter", "",
                  {"K Detection", "Blend", "Bad K"}),
              SOp("split", "coolsplitter", "", {"In Gaia"}),
              SOp("split_subsample", "clean_splitter", "coolsplitter",
                  {"K Detection", "In Gaia"}),
              SOp("column", "clean_splitter", "", {"MIST K"}),
              SOp("column", "clean_splitter", "", {"K Excess"}),
              SOp("split", "clean_splitter", "", {"Not Dwarfs", "Dwarfs"}),
              SOp("subsample_len", "clean_splitter", "", {"Dwarfs"}) >>
      [] f = "asteroseismic_sample_MK" ->
           << SOp("global", "apokasc", "asteroseismic_data_splitter", {}),
              SOp("split", "apokasc", "", {"APOGEE2_APOKASC_DWARF"}),
              SOp("subsample", "apokasc", "",
                  {"Bad", "APOGEE2_APOKASC_DWARF", "Good K"}),
              SOp("subsample", "apokasc", "",
                  {"Bad", "APOGEE2_APOKASC_DWARF", "Blend"}),
              SOp("subsample", "apokasc", "",
                  {"Bad", "Asteroseismic Dwarfs", "Good K"}),
              SOp("subsample", "apokasc", "",
                  {"Bad", "Asteroseismic Dwarfs", "Blend"}) >>
      [] f = "asteroseismic_logg_Gaia_comparison" ->
           << SOp("global", "apokasc", "asteroseismic_data_splitter", {}),
              SOp("split", "apokasc", "", {"APOGEE2_APOKASC_DWARF"}),
              SOp("subsample", "apokasc", "",
                  {"Bad", "APOGEE2_APOKASC_DWARF"}),
              SOp("split_subsample", "astero_samp", "apokasc",
                  {"Bad", "Asteroseismic Dwarfs"}),
              SOp("split", "astero_samp", "",
                  {"Cool astero subgiant", "Cool astero dwarfs"}),
              SOp("subsample", "astero_samp", "", {"Hot"}),
              SOp("subsample", "astero_samp", "",
                  {"Cool", "Cool astero subgiant"}),
              SOp("subsample", "astero_samp", "",
                  {"Cool", "Cool astero dwarfs"}) >>
      [] f = "plot_k_excess_rotation_apogee" ->
           << SOp("cache", "apo", "full_apogee_splitter", {}),
              SOp("split_subsample", "good_phot", "apo",
                  {"Bad", "In Gaia", "K Detection"}),
              SOp("split", "good_phot", "", {"Nondwarfs", "Dwarfs", "No mag"}),
              SOp("split", "good_phot", "",
                  {"Apo Cool", "Apo Hot", "No APOGEE Teff"}),
              SOp("subsample", "good_phot", "", {"Dwarfs", "Apo Cool"}),
              SOp("subsample", "good_phot", "",
                  {"Dwarfs", "Apo Cool", "DLSB"}),
              SOp("subsample_len", "good_phot", "", {"No APOGEE Teff"}) >>
      [] f = "plot_mcq_binarity_histogram" ->
           << SOp("new", "mcq", "", {}),
              SOp("split", "mcq", "", {"Nondwarfs", "Dwarfs", "No mag"}),
              SOp("split", "mcq", "", {"Cool", "Subgiant regime"}),
              SOp("subsample", "mcq", "", {"Dwarfs", "Cool"}),
              SOp("subsample", "mcq", "", {"Dwarfs", "Cool", "Slow"}) >>
      [] f = "plot_apogee_binarity_histogram" ->
           << SOp("global", "cools", "cool_data_splitter", {}),
              SOp("split_subsample", "cools_mk", "cools",
                  {"In Gaia", "K Detection"}),
              SOp("split", "cools_mk", "", {"Low MS", "MS", "High MS"}),
              SOp("split", "cools_mk", "", {"High", "Low"}),
              SOp("subsample", "cools_mk", "", {"Bad", "MS", "Low"}),
              SOp("subsample", "cools_mk", "", {"Bad", "MS", "Low"}),
              SOp("subsample", "cools_mk", "",
                  {"Bad", "MS", "Low", "Vsini det"}) >>
      [] f = "APOGEE_metallicity_agreement" ->
           << SOp("global", "cools", "cool_data_splitter", {}),
              SOp("split_subsample", "cools_mk", "cools",
                  {"In Gaia", "K Detection"}),
              SOp("split", "cools_mk", "", {"Low MS", "MS", "High MS"}),
              SOp("split", "cools_mk", "", {"High", "Low"}),
              SOp("subsample", "cools_mk", "", {"Bad", "MS", "Low"}) >>
      [] f = "APOGEE_metallicity_slice" ->
           << SOp("global", "cools", "cool_data_splitter", {}),
              SOp("split_subsample", "cools_mk", "cools",
                  {"In Gaia", "K Detection"}),
              SOp("split", "cools_mk", "", {"Lower MS", "Higher MS"}),
              SOp("split", "cools_mk", "", {"High", "Low"}),
              SOp("split", "cools_mk", "",
                  {"High met", "Sol met", "Low Met", "No met"}),
              SOp("subsample", "cools_mk", "",
                  {"Bad", "Lower MS", "Low", "Sol met"}) >>
      [] f = "rapid_rotator_HR_diagram" ->
           << SOp("cache", "apo_splitter", "apogee_splitter_with_DSEP", {}),
              SOp("split", "apo_splitter", "", {"Cool", "Hot"}),
              SOp("split", "apo_splitter", "",
                  {"Vsini nondet", "Vsini det", "No Vsini"}),
              SOp("subsample", "apo_splitter", "", {"Dwarfs", "Cool"}),
              SOp("subsample", "apo_splitter", "",
                  {"Dwarfs", "Cool", "Vsini det", "DLSB"}),
              SOp("subsample", "apo_splitter", "",
                  {"Dwarfs", "Cool", "DLSB"}) >>
      [] OTHER -> << >>

\* the criteria function f creates with split_* calls on its variable sp
ScriptNames(f, sp) ==
    UNION {SplitterOps(f)[k].names :
              k \in {k \in DOMAIN SplitterOps(f) :
                        /\ SplitterOps(f)[k].op = "split"
                        /\ SplitterOps(f)[k].sp = sp}}

\* the loader's result is memoized: every call of cache.<key>() gives the
\* same object, named here by its key
cache_get(key) == key

\* split_*(...) on the splitter of variable sp: the criteria it creates
ApplySplit_lost(created, sp, names) == created
ApplySplit(created, sp, names) == created \cup {<< sp, n >> : n \in names}

NoSplitFrame ==
    [fn |-> "idle", k |-> 0, env |-> [v \in SplitVars |-> "unbound"],
     created |-> {},
     lastref |-> [fn |-> "none", op |-> "none", sp |-> "none", names |-> {}]]

InitSplit ==
    /\ Imported
    /\ bins = NotEntered
    /\ fit = NotEntered
    /\ splitters = [fn |-> "idle", k |-> 0, calls |-> 0, exc |-> "none",
                    env |-> NoSplitFrame.env,
                    objs |-> [o \in CacheKeys \cup SplitVars |-> {}],
                    created |-> {}, early |-> {}, seen |-> {},
                    lastref |-> NoSplitFrame.lastref]
    /\ recov = NotEntered
    /\ calc = NotEntered

\* a function is called: its locals are new
SplitInvoke ==
    /\ splitters.fn = "idle"
    /\ splitters.calls < MaxSplitCalls
    /\ \E f \in SplitFns :
           splitters' = [splitters EXCEPT !.fn = f, !.k = 1,
                             !.calls = @ + 1, !.exc = "none",
                             !.env = NoSplitFrame.env, !.created = {},
                             !.lastref = NoSplitFrame.lastref]
    /\ UNCHANGED << calc, script, bins, fit, recov >>

\* the next splitter statement of the function
SplitStep ==
    /\ splitters.fn \in SplitFns
    /\ splitters.k <= Len(SplitterOps(splitters.fn))
    /\ LET o == SplitterOps(splitters.fn)[splitters.k]
           f == splitters.fn
           obj == splitters.env[o.sp]
           ref == [fn |-> f, op |-> o.op, sp |-> o.sp, names |-> o.names]
           tooearly(sp) ==
               {[fn |-> f, op |-> o.op, sp |-> sp, name |-> n] :
                   n \in {n \in o.names \cap ScriptNames(f, sp) :
                             << sp, n >> \notin splitters.created}}
       IN
       CASE o.op = "global" ->
              IF o.arg \in ModuleNames
              THEN splitters' = [splitters EXCEPT !.k = @ + 1,
                                     !.env[o.sp] = o.sp, !.objs[o.sp] = {}]
              ELSE splitters' = [splitters EXCEPT !.fn = "idle", !.k = 0,
                                     !.exc = "NameError"]
         [] o.op = "cache" ->
              splitters' = [splitters EXCEPT !.k = @ + 1,
                                !.env[o.sp] = cache_get(o.arg),
                                !.seen = @ \cup
                                   {[fn |-> f, key |-> o.arg,
                                     had |-> splitters.objs[cache_get(o.arg)]]}]
         [] o.op = "new" ->
              splitters' = [splitters EXCEPT !.k = @ + 1,
                                !.env[o.sp] = o.sp, !.objs[o.sp] = {}]
         [] o.op = "split_subsample" ->
              splitters' = [splitters EXCEPT !.k = @ + 1,
                                !.env[o.sp] = o.sp,
                                !.objs[o.sp] = splitters.objs[splitters.env[o.arg]],
                                !.early = @ \cup tooearly(o.arg),
                                !.lastref = [ref EXCEPT !.sp = o.arg]]
         [] o.op = "split" ->
              splitters' = [splitters EXCEPT !.k = @ + 1,
                                !.objs[obj] = @ \cup o.names,
                                !.created = ApplySplit(@, o.sp, o.names)]
         [] o.op = "column" ->
              splitters' = [splitters EXCEPT !.k = @ + 1,
                                !.objs[obj] = @ \cup o.names]
         [] o.op \in {"subsample", "subsample_len"} ->
              splitters' = [splitters EXCEPT !.k = @ + 1,
                                !.early = @ \cup tooearly(o.sp),
                                !.lastref = ref]
    /\ UNCHANGED << calc, script, bins, fit, recov >>

\* the function is past its last splitter statement
SplitReturn ==
    /\ splitters.fn \in SplitFns
    /\ splitters.k > Len(SplitterOps(splitters.fn))
    /\ splitters' = [splitters EXCEPT !.fn = "idle", !.k = 0]
    /\ UNCHANGED << calc, script, bins, fit, recov >>

NextSplit ==
    \/ SplitInvoke
    \/ SplitStep
    \/ SplitReturn

SpecSplit == InitSplit /\ [][NextSplit]_vars

\* C13: no function modifies an object it obtained from the cache (no
\* criterion and no data column is added to a cached splitter), and what a
\* function obtains from the cache does not depend on the functions that
\* ran before it in the same process.
C13_CachedObjectsUntouched ==
    splitters.fn # "none" =>
        /\ \A key \in CacheKeys : splitters.objs[cache_get(key)] = {}
        /\ \A a, b \in splitters.seen :
               (a.fn = b.fn /\ a.key = b.key) => a.had = b.had

\* C14: every criterion name a function creates with a split_* call on a
\* splitter has been created by that call before a subsample or
\* subsample_len call on the splitter names it.
C14_SplitBeforeSubsample ==
    splitters.fn # "none" =>
        \A e \in splitters.early : e.op \notin {"subsample", "subsample_len"}

\* plot_k_excess_rotation_apogee at good_phot.subsample_len(["No APOGEE
\* Teff"]), the name created by split_teff two statements earlier.
C14_Witness ==
    /\ splitters.fn = "plot_k_excess_rotation_apogee"
    /\ splitters.lastref = [fn |-> "plot_k_excess_rotation_apogee",
                            op |-> "subsample_len", sp |-> "good_phot",
                            names |-> {"No APOGEE Teff"}]
    /\ << "good_phot", "No APOGEE Teff" >> \in splitters.created
    /\ << "good_phot", "Dwarfs" >> \in splitters.created

(***************************************************************************)
(* The three loops with a try block: median_over_metallicity (over the     *)
(* metallicity and temperature bins), plot_lower_limit_Bruntt_test and     *)
(* plot_lower_limit_Pleiades_test (over the stars).  The script has no     *)
(* other try statement.                                                    *)
(***************************************************************************)
MaxIter == 3

RecoverFns == {"median_over_metallicity", "plot_lower_limit_Bruntt_test",
               "plot_lower_limit_Pleiades_test"}

\* what the guarded call (np.percentile, scipy.stats.anderson_ksamp) does:
\* it returns, or raises one of these
GuardedOutcomes == {"none", "IndexError", "ValueError", "KeyError"}

\* except IndexError: (median_over_metallicity) / except ValueError: (the
\* two Anderson-Darling loops)
Catches_nothing(f, e) == FALSE
Catches(f, e) ==
    IF f = "median_over_metallicity" THEN e = "IndexError"
    ELSE e = "ValueError"

InitRecov ==
    /\ Imported
    /\ bins = NotEntered
    /\ fit = NotEntered
    /\ splitters = NotEntered
    /\ calc = NotEntered
    /\ recov \in {[fn |-> f, step |-> "for", it |-> 1, outcomes |-> << >>,
                   values |-> << >>, exc |-> "none"] : f \in RecoverFns}

\* try: the guarded call of iteration it
RecovTry ==
    /\ recov.fn \in RecoverFns
    /\ recov.step = "for"
    /\ recov.it <= MaxIter
    /\ \E e \in GuardedOutcomes :
           recov' = [recov EXCEPT !.step = "try", !.outcomes = Append(@, e)]
    /\ UNCHANGED << calc, script, bins, fit, splitters >>

\* the assignment of the value, or except <type>: ... = np.nan, or the
\* exception leaves the function
RecovHandle ==
    /\ recov.fn \in RecoverFns
    /\ recov.step = "try"
    /\ LET e == recov.outcomes[Len(recov.outcomes)] IN
       IF e = "none"
       THEN recov' = [recov EXCEPT !.step = "for", !.it = @ + 1,
                          !.values = Append(@, "value")]
       ELSE IF Catches(recov.fn, e)
       THEN recov' = [recov EXCEPT !.step = "for", !.it = @ + 1,
                          !.values = Append(@, "nan")]
       ELSE recov' = [recov EXCEPT !.step = "raised", !.exc = e]
    /\ UNCHANGED << calc, script, bins, fit, splitters >>

\* the loop is exhausted and the function goes on to plot the values
RecovLoopEnd ==
    /\ recov.fn \in RecoverFns
    /\ recov.step = "for"
    /\ recov.it > MaxIter
    /\ recov' = [recov EXCEPT !.step = "plot"]
    /\ UNCHANGED << calc, script, bins, fit, splitters >>

NextRecov ==
    \/ RecovTry
    \/ RecovHandle
    \/ RecovLoopEnd

SpecRecov == InitRecov /\ [][NextRecov]_vars

\* C15: no function recovers from a failure: an exception raised inside a
\* function is never caught, the function does not continue past it and no
\* substitute value stands in for the failed computation.
C15_NoRecovery ==
    recov.fn # "none" =>
        /\ \A k \in DOMAIN recov.outcomes :
               recov.outcomes[k] # "none" =>
                   (k = Len(recov.outcomes) /\ recov.step \in {"try", "raised"})
        /\ \A k \in DOMAIN recov.values : recov.values[k] # "nan"

\* C15 amended: an exception is caught at three places only, and only of
\* the type the except clause names (IndexError in median_over_metallicity,
\* ValueError in the two lower-limit tests): the entry of that iteration is
\* set to nan and the loop goes on.  Any other exception ends the function
\* where it was raised, with no entry stored for that iteration.
C15_OnlyNamedExceptionRecovered ==
    recov.fn # "none" =>
        LET named == IF recov.fn = "median_over_metallicity"
                     THEN "IndexError" ELSE "ValueError"
            handled == IF recov.step = "try" THEN Len(recov.outcomes) - 1
                       ELSE Len(recov.outcomes)
        IN  /\ \A k \in 1..handled :
                   /\ recov.outcomes[k] = "none" =>
                          (k <= Len(recov.values) /\ recov.values[k] = "value")
                   /\ recov.outcomes[k] = named =>
                          (k <= Len(recov.values) /\ recov.values[k] = "nan")
                   /\ recov.outcomes[k] \notin {"none", named} =>
                          /\ k = Len(recov.outcomes)
                          /\ recov.step = "raised"
                          /\ recov.exc = recov.outcomes[k]
                          /\ Len(recov.values) = k - 1
            /\ recov.step # "raised" => Len(recov.values) = handled
            /\ recov.step = "plot" => Len(recov.values) = MaxIter

\* plot_lower_limit_Bruntt_test went on after a ValueError to the next
\* star and to the plot.
C15_Witness ==
    /\ recov.fn = "plot_lower_limit_Bruntt_test"
    /\ recov.step = "plot"
    /\ recov.outcomes[1] = "ValueError"
    /\ recov.values[1] = "nan"
    /\ recov.values[2] = "value"

(***************************************************************************)
(* The four period panels (rapid_rotator_bins,                             *)
(* mcquillan_rapid_rotator_bins).  Periods are integers, tenths of a day.  *)
(***************************************************************************)
MaxEBs == 1

PanelFns == {"rapid_rotator_bins", "mcquillan_rapid_rotator_bins"}

\* mcq_cooldwarfs["Prot"] / dwarfs["Prot"] and eb_cooldwarfs["period"] /
\* eb_dwarfs["period"]: one period per star, among them the bin edges
PanelPeriods == {10, 15, 40, 70, 100, 120}

\* np.flipud(np.array([1.5, 7, 10]))
flipud(a) == [k \in 1..Len(a) |-> a[Len(a) + 1 - k]]
periodbins == flipud(<< 15, 70, 100 >>)

\* np.digitize(x, bins) for monotonically decreasing bins with the default
\* right=False: index i means bins[i-1] > x >= bins[i], that is, the
\* number of edges that are greater than x.
digitize_decreasing(x, edges) ==
    [s \in 1..Len(x) |-> Cardinality({k \in 1..Len(edges) : edges[k] > x[s]})]

\* "{0:g} day < {2} <= {1:g} day".format(p2, p1, Protstr): the text states
\* the first argument as the excluded lower end and the second as the
\* included upper end
title_between(args) == [text |-> "lo day < Prot <= hi day",
                        lo |-> args[1], hi |-> args[2]]
\* "{1} > {0:g} day".format(periodbins[0], Protstr)
title_above(args) == [text |-> "Prot > lo day", lo |-> args[1]]
\* "{1} <= {0:g} day".format(periodbins[-1], Protstr)
title_atmost(args) == [text |-> "Prot <= hi day", hi |-> args[1]]

\* titles = [... for (p1, p2) in zip(periodbins[:-1], periodbins[1:])];
\* titles.insert(0, ...); titles.insert(len(titles), ...)
titles ==
    << title_above(<< periodbins[1] >>) >>
    \o [k \in 1..(Len(periodbins) - 1) |->
           title_between(<< periodbins[k + 1], periodbins[k] >>)]
    \o << title_atmost(<< periodbins[Len(periodbins)] >>) >>

InitPanels ==
    /\ Imported
    /\ bins = NotEntered
    /\ fit = NotEntered
    /\ splitters = NotEntered
    /\ recov = NotEntered
    /\ \E f \in PanelFns,
          P \in UNION {[1..n -> PanelPeriods] : n \in 1..MaxSample},
          E \in UNION {[1..n -> PanelPeriods] : n \in 0..MaxEBs} :
           calc = [fn |-> f, step |-> "digitize", Prot |-> P, period |-> E,
                   mcq_period_indices |-> << >>,
                   eb_period_indices |-> << >>,
                   titles |-> << >>, i |-> 0, axes |-> << >>]

\* mcq_period_indices = np.digitize(...); eb_period_indices = ...;
\* titles = ...
PanelDigitize ==
    /\ calc.fn \in PanelFns
    /\ calc.step = "digitize"
    /\ calc' = [calc EXCEPT
                    !.step = "for",
                    !.mcq_period_indices =
                        digitize_decreasing(calc.Prot, periodbins),
                    !.eb_period_indices =
                        digitize_decreasing(calc.period, periodbins),
                    !.titles = titles]
    /\ UNCHANGED << script, bins, fit, splitters, recov >>

\* for i, (title, ax) in enumerate(zip(titles, np.ravel(axes))): the stars
\* with index i are plotted on the axis and the axis gets the title
PanelLoop ==
    /\ calc.fn \in PanelFns
    /\ calc.step = "for"
    /\ calc.i < Len(calc.titles)
    /\ calc' = [calc EXCEPT
                    !.i = @ + 1,
                    !.axes = Append(@,
                        [title |-> calc.titles[calc.i + 1],
                         mcq_periodbin |->
                             tablebin(calc.mcq_period_indices, calc.i),
                         eb_periodbin |->
                             tablebin(calc.eb_period_indices, calc.i)])]
    /\ UNCHANGED << script, bins, fit, splitters, recov >>

PanelLoopEnd ==
    /\ calc.fn \in PanelFns
    /\ calc.step = "for"
    /\ calc.i >= Len(calc.titles)
    /\ calc' = [calc EXCEPT !.step = "done"]
    /\ UNCHANGED << script, bins, fit, splitters, recov >>

NextPanels ==
    \/ PanelDigitize
    \/ PanelLoop
    \/ PanelLoopEnd

SpecPanels == InitPanels /\ [][NextPanels]_vars

\* what a panel title says about a period p
TitleStates(title, p) ==
    IF title.text = "Prot > lo day" THEN p > title.lo
    ELSE IF title.text = "Prot <= hi day" THEN p <= title.hi
    ELSE title.lo < p /\ p <= title.hi

\* C21: once the four panels are drawn, every star with a period is
\* drawn in exactly one panel, and every panel holds exactly the stars
\* whose period satisfies the panel's title, stars with a period on a bin
\* edge (1.5, 7 or 10 days) included.
C21_PanelsMatchTitles ==
    (calc.fn \in PanelFns /\ calc.step = "done") =>
        /\ Len(calc.axes) = 4
        /\ \A s \in DOMAIN calc.Prot :
               Cardinality({a \in DOMAIN calc.axes :
                                s \in calc.axes[a].mcq_periodbin}) = 1
        /\ \A s \in DOMAIN calc.period :
               Cardinality({a \in DOMAIN calc.axes :
                                s \in calc.axes[a].eb_periodbin}) = 1
        /\ \A a \in DOMAIN calc.axes :
               /\ calc.axes[a].mcq_periodbin =
                      {s \in DOMAIN calc.Prot :
                           TitleStates(calc.axes[a].title, calc.Prot[s])}
               /\ calc.axes[a].eb_periodbin =
                      {s \in DOMAIN calc.period :
                           TitleStates(calc.axes[a].title, calc.period[s])}

(***************************************************************************)
(* The provenance series of teff_comparison_mcquillan.                     *)
(***************************************************************************)
\* the values of the teff_prov column the script names; the column
\* comparable_dwarfs["teff_prov"] holds one of them per star
TeffProvs == {"KIC0", "PHO1", "PHO2", "PHO54"}

provenances == << "KIC0", "PHO1" >>

\* np.count_nonzero(a) of an integer array, and of a boolean array
count_nonzero(a) == Cardinality({k \in DOMAIN a : a[k] # 0})
count_true(mask) == Cardinality({k \in DOMAIN mask : mask[k]})

\* column[mask] for a boolean mask: the rows where the mask is True, in
\* order (the rows are named by their position, counted from 0)
RECURSIVE MaskRows(_, _)
MaskRows(mask, k) ==
    IF k > Len(mask) THEN << >>
    ELSE (IF mask[k] THEN << k - 1 >> ELSE << >>) \o MaskRows(mask, k + 1)

\* column[index] for an integer array: entry k of the result is row
\* index[k] of the column, one entry per entry of the index
TakeRows(index) == index

\* an integer index is valid for a column of n rows when it is below n
IndexInBounds(index, n) == \A k \in DOMAIN index : index[k] < n

InitOthers ==
    /\ Imported
    /\ bins = NotEntered
    /\ fit = NotEntered
    /\ splitters = NotEntered
    /\ recov = NotEntered
    /\ \E col \in UNION {[1..n -> TeffProvs] : n \in 0..MaxSample},
          hasint \in BOOLEAN :
           calc = [fn |-> "teff_comparison_mcquillan", step |-> "ones",
                   teff_prov |-> col, np_int |-> hasint,
                   oppo_array |-> << >>, p |-> 1,
                   plotted |-> << >>, printed |-> << >>, exc |-> "none"]

\* oppo_array = np.ones(len(comparable_dwarfs), dtype=np.int); the name
\* np.int exists in numpy before 1.24 only
OthersOnes ==
    /\ calc.fn = "teff_comparison_mcquillan"
    /\ calc.step = "ones"
    /\ IF calc.np_int
       THEN calc' = [calc EXCEPT
                         !.step = "for",
                         !.oppo_array = [k \in DOMAIN calc.teff_prov |-> 1]]
       ELSE calc' = [calc EXCEPT !.step = "raised",
                                 !.exc = "AttributeError"]
    /\ UNCHANGED << script, bins, fit, splitters, recov >>

\* for prov, lab, c in zip(provenances, labels, colors): the stars of the
\* provenance are plotted and counted, and their entries of oppo_array
\* are set to 0
OthersLoop ==
    /\ calc.fn = "teff_comparison_mcquillan"
    /\ calc.step = "for"
    /\ calc.p <= Len(provenances)
    /\ LET prov == provenances[calc.p]
           prov_indicator == [k \in DOMAIN calc.teff_prov |->
                                  calc.teff_prov[k] = prov]
       IN  calc' = [calc EXCEPT
                        !.p = @ + 1,
                        !.plotted = Append(@,
                            [label |-> prov,
                             rows |-> MaskRows(prov_indicator, 1)]),
                        !.oppo_array = [k \in DOMAIN calc.oppo_array |->
                            IF prov_indicator[k] THEN 0
                            ELSE calc.oppo_array[k]],
                        !.printed = Append(@,
                            [label |-> prov,
                             count |-> count_true(prov_indicator)])]
    /\ UNCHANGED << script, bins, fit, splitters, recov >>

\* ax.plot(comparable_dwarfs["teff"][oppo_array], ..., label="Others")
OthersPlot ==
    /\ calc.fn = "teff_comparison_mcquillan"
    /\ calc.step = "for"
    /\ calc.p > Len(provenances)
    /\ IF IndexInBounds(calc.oppo_array, Len(calc.teff_prov))
       THEN calc' = [calc EXCEPT
                         !.step = "print",
                         !.plotted = Append(@,
                             [label |-> "Others",
                              rows |-> TakeRows(calc.oppo_array)])]
       ELSE calc' = [calc EXCEPT !.step = "raised", !.exc = "IndexError"]
    /\ UNCHANGED << script, bins, fit, splitters, recov >>

\* print("{0}: {1:d}".format("Others", np.count_nonzero(oppo_array)))
OthersPrint ==
    /\ calc.fn = "teff_comparison_mcquillan"
    /\ calc.step = "print"
    /\ calc' = [calc EXCEPT
                    !.step = "done",
                    !.printed = Append(@,
                        [label |-> "Others",
                         count |-> count_nonzero(calc.oppo_array)])]
    /\ UNCHANGED << script, bins, fit, splitters, recov >>

NextOthers ==
    \/ OthersOnes
    \/ OthersLoop
    \/ OthersPlot
    \/ OthersPrint

SpecOthers == InitOthers /\ [][NextOthers]_vars

\* C22: the series plotted as 'Others' holds exactly the stars whose
\* teff_prov is neither 'KIC0' nor 'PHO1', each of them once and no other
\* star, and the printed 'Others' count is the size of that series.
C22_OthersSeries ==
    (calc.fn = "teff_comparison_mcquillan" /\ calc.step = "done") =>
        LET others == calc.plotted[Len(calc.plotted)].rows
            count == calc.printed[Len(calc.printed)].count
        IN  /\ \A s \in DOMAIN calc.teff_prov :
                   Cardinality({k \in DOMAIN others : others[k] = s - 1}) =
                       (IF calc.teff_prov[s] \in {"KIC0", "PHO1"}
                        THEN 0 ELSE 1)
            /\ Len(others) = count

(***************************************************************************)
(* The counts of verify_eb_rapid_rotator_rate.  A star is a kepid; it can  *)
(* be a McQuillan period detection (with Prot), a McQuillan nondetection,  *)
(* and an eclipsing binary (with period).  Periods are tenths of a day.    *)
(***************************************************************************)
Kepids == 1..MaxStars

\* what the rotation catalogs hold for a star: nothing, a nondetection, or
\* a detection with this Prot; what the EB catalog holds: nothing or an
\* eclipsing binary of this period
NotListed == 0
NonDetection == -1
RotEntries == {NotListed, NonDetection, 10, 40, 70, 90}
EBEntries == {NotListed, 8, 40, 90}

\* the rows of a table, in kepid order, for the stars of the set kept
TableRows(entry, kept) ==
    LET present(row) == row.kepid \in kept
    IN  SelectSeq([k \in Kepids |-> [kepid |-> k, value |-> entry[k]]],
                  present)

\* au.filter_column_from_subtable(table, "kepid", values): the rows of
\* table whose kepid is not among values
filter_column_from_subtable(table, values) ==
    LET absent(row) == \A k \in DOMAIN values : values[k].kepid # row.kepid
    IN  SelectSeq(table, absent)

\* table[np.logical_and(col > 1.5, col < 7)]: SelectSeq keeps the rows
\* that satisfy the condition, in order
rapid_period(row) == row.value > 15 /\ row.value < 70

InitRate ==
    /\ Imported
    /\ bins = NotEntered
    /\ fit = NotEntered
    /\ splitters = NotEntered
    /\ recov = NotEntered
    /\ \E rot \in [Kepids -> RotEntries], eb \in [Kepids -> EBEntries] :
           LET isdet == {k \in Kepids : rot[k] \notin {NotListed, NonDetection}}
               isnon == {k \in Kepids : rot[k] = NonDetection}
               iseb == {k \in Kepids : eb[k] # NotListed}
           IN  calc = [fn |-> "verify_eb_rapid_rotator_rate",
                       step |-> "filter",
                       mcq_dwarfs |-> TableRows(rot, isdet),
                       nomcq_dwarfs |-> TableRows(rot, isnon),
                       dwarf_ebs |-> TableRows(eb, iseb),
                       dwarfs |-> << >>, totalobjs |-> 0,
                       num_rapid |-> 0, num_ebs |-> 0, total_rapid |-> 0]

\* dwarfs = vstack([...]); dwarf_ebs = dwarf_ebs[dwarf_ebs["period"] > 1];
\* dwarfs = au.filter_column_from_subtable(dwarfs, "kepid", ...)
RateFilter ==
    /\ calc.fn = "verify_eb_rapid_rotator_rate"
    /\ calc.step = "filter"
    /\ LET detached(row) == row.value > 10
           ebs == SelectSeq(calc.dwarf_ebs, detached)
           stacked == calc.mcq_dwarfs \o calc.nomcq_dwarfs
       IN  calc' = [calc EXCEPT
                        !.step = "totalobjs",
                        !.dwarf_ebs = ebs,
                        !.dwarfs = filter_column_from_subtable(stacked, ebs)]
    /\ UNCHANGED << script, bins, fit, splitters, recov >>

\* totalobjs = len(dwarfs) + len(dwarf_ebs)
RateTotalobjs ==
    /\ calc.fn = "verify_eb_rapid_rotator_rate"
    /\ calc.step = "totalobjs"
    /\ calc' = [calc EXCEPT
                    !.step = "total_rapid",
                    !.totalobjs = Len(calc.dwarfs) + Len(calc.dwarf_ebs)]
    /\ UNCHANGED << script, bins, fit, splitters, recov >>

\* num_rapid = np.count_nonzero(...mcq_dwarfs["Prot"]...); num_ebs = ...;
\* total_rapid = num_rapid + num_ebs
RateTotalRapid ==
    /\ calc.fn = "verify_eb_rapid_rotator_rate"
    /\ calc.step = "total_rapid"
    /\ LET num_rapid == Len(SelectSeq(calc.mcq_dwarfs, rapid_period))
           num_ebs == Len(SelectSeq(calc.dwarf_ebs, rapid_period))
       IN  calc' = [calc EXCEPT
                        !.step = "done",
                        !.num_rapid = num_rapid,
                        !.num_ebs = num_ebs,
                        !.total_rapid = num_rapid + num_ebs]
    /\ UNCHANGED << script, bins, fit, splitters, recov >>

NextRate ==
    \/ RateFilter
    \/ RateTotalobjs
    \/ RateTotalRapid

SpecRate == InitRate /\ [][NextRate]_vars

\* the number of rows of a table that belong to star k
RowsOf(table, k) == Cardinality({r \in DOMAIN table : table[r].kepid = k})

\* C23: every star contributes at most once to totalobjs and at most once
\* to total_rapid = num_rapid + num_ebs, a star that is both a McQuillan
\* detection and an eclipsing binary with both periods in (1.5, 7)
\* included; the two totals are the sums of these contributions.
C23_EachStarCountedOnce ==
    (calc.fn = "verify_eb_rapid_rotator_rate" /\ calc.step = "done") =>
        LET rapid_rot == SelectSeq(calc.mcq_dwarfs, rapid_period)
            rapid_ebs == SelectSeq(calc.dwarf_ebs, rapid_period)
        IN  /\ calc.totalobjs = Len(calc.dwarfs) + Len(calc.dwarf_ebs)
            /\ calc.total_rapid = Len(rapid_rot) + Len(rapid_ebs)
            /\ \A k \in Kepids :
                   /\ RowsOf(calc.dwarfs, k) + RowsOf(calc.dwarf_ebs, k) <= 1
                   /\ RowsOf(rapid_rot, k) + RowsOf(rapid_ebs, k) <= 1

(***************************************************************************)
(* The binary fraction per period bin (binary_fractions_with_period).      *)
(* Periods are tenths of a day, K excesses hundredths of a magnitude; a    *)
(* fraction is kept as the pair of its numerator and denominator.          *)
(***************************************************************************)
incl_limit == -20
cons_limit == -30

\* np.linspace(start, stop, num) for a start and a step that are integers
linspace(start, step, num) == [k \in 1..num |-> start + step * (k - 1)]

\* period_bins = np.linspace(1.5, 21.5, 20+1, ...)
period_bins == linspace(15, 10, 20 + 1)

\* np.histogram(values, bins=edges): bin k holds edges[k] <= v < edges[k+1],
\* the last bin also v = edges[-1]; other values are not counted
histogram(values, edges) ==
    [k \in 1..(Len(edges) - 1) |->
        Cardinality({s \in DOMAIN values :
            /\ edges[k] <= values[s]
            /\ \/ values[s] < edges[k + 1]
               \/ k = Len(edges) - 1 /\ values[s] = edges[k + 1]})]

\* hist1 + hist2, element by element
AddHist(h1, h2) == [k \in DOMAIN h1 |-> h1[k] + h2[k]]

\* mcq_dwarfs[["Prot", "Corrected K Excess"]] and
\* dwarf_ebs[["period", "Corrected K Excess"]]: one row per star
FracStars == [period : {10, 15, 25, 215}, excess : {-35, -30, -20, 0}]
FracEBs == [period : {15, 215}, excess : {-30, -20}]

\* table["Corrected K Excess"] < limit  and  >= limit
is_binary_closed(row, limit) == row.excess <= limit
is_binary(row, limit) == row.excess < limit
is_single(row, limit) == row.excess >= limit

\* table["Prot"] / table["period"]: the period column of the rows
PeriodsOf(rows) == [k \in DOMAIN rows |-> rows[k].period]

InitFrac ==
    /\ Imported
    /\ bins = NotEntered
    /\ fit = NotEntered
    /\ splitters = NotEntered
    /\ recov = NotEntered
    /\ \E m \in UNION {[1..n -> FracStars] : n \in 1..MaxStars},
          e \in UNION {[1..n -> FracEBs] : n \in 0..MaxEBs} :
           calc = [fn |-> "binary_fractions_with_period",
                   step |-> "histograms",
                   mcq_dwarfs |-> m, dwarf_ebs |-> e,
                   hist |-> << >>, total |-> << >>,
                   total_binaries02 |-> << >>, total_singles02 |-> << >>,
                   total_binaries03 |-> << >>, total_singles03 |-> << >>,
                   frac02 |-> << >>, frac03 |-> << >>]

\* the ten np.histogram calls
FracHistograms ==
    /\ calc.fn = "binary_fractions_with_period"
    /\ calc.step = "histograms"
    /\ LET b02(row) == is_binary(row, incl_limit)
           s02(row) == is_single(row, incl_limit)
           b03(row) == is_binary(row, cons_limit)
           s03(row) == is_single(row, cons_limit)
           all(row) == TRUE
           H(table, mask(_)) ==
               histogram(PeriodsOf(SelectSeq(table, mask)), period_bins)
       IN  calc' = [calc EXCEPT
                !.step = "totals",
                !.hist =
                    [binary_rot_hist02 |-> H(calc.mcq_dwarfs, b02),
                     binary_eb_hist02 |-> H(calc.dwarf_ebs, b02),
                     single_rot_hist02 |-> H(calc.mcq_dwarfs, s02),
                     single_eb_hist02 |-> H(calc.dwarf_ebs, s02),
                     binary_rot_hist03 |-> H(calc.mcq_dwarfs, b03),
                     binary_eb_hist03 |-> H(calc.dwarf_ebs, b03),
                     single_rot_hist03 |-> H(calc.mcq_dwarfs, s03),
                     single_eb_hist03 |-> H(calc.dwarf_ebs, s03),
                     full_rot_hist |-> H(calc.mcq_dwarfs, all),
                     full_eb_hist |-> H(calc.dwarf_ebs, all)]]
    /\ UNCHANGED << script, bins, fit, splitters, recov >>

\* total_binaries02 = binary_rot_hist02 + binary_eb_hist02; ...;
\* total = full_rot_hist + full_eb_hist
FracTotals ==
    /\ calc.fn = "binary_fractions_with_period"
    /\ calc.step = "totals"
    /\ LET h == calc.hist IN
       calc' = [calc EXCEPT
            !.step = "fractions",
            !.total_binaries02 =
                AddHist(h.binary_rot_hist02, h.binary_eb_hist02),
            !.total_singles02 =
                AddHist(h.single_rot_hist02, h.single_eb_hist02),
            !.total_binaries03 =
                AddHist(h.binary_rot_hist03, h.binary_eb_hist03),
            !.total_singles03 =
                AddHist(h.single_rot_hist03, h.single_eb_hist03),
            !.total = AddHist(h.full_rot_hist, h.full_eb_hist)]
    /\ UNCHANGED << script, bins, fit, splitters, recov >>

\* frac02 = total_binaries02 / total; frac03 = total_binaries03 / total
FracFractions ==
    /\ calc.fn = "binary_fractions_with_period"
    /\ calc.step = "fractions"
    /\ calc' = [calc EXCEPT
            !.step = "plot",
            !.frac02 = [k \in DOMAIN calc.total |->
                           [num |-> calc.total_binaries02[k],
                            den |-> calc.total[k]]],
            !.frac03 = [k \in DOMAIN calc.total |->
                           [num |-> calc.total_binaries03[k],
                            den |-> calc.total[k]]]]
    /\ UNCHANGED << script, bins, fit, splitters, recov >>

NextFrac ==
    \/ FracHistograms
    \/ FracTotals
    \/ FracFractions

SpecFrac == InitFrac /\ [][NextFrac]_vars

\* a fraction num/den with den > 0 lies in [0, 1]
InUnitInterval(q) == 0 <= q.num /\ q.num <= q.den

\* C24: for both excess limits and in every period bin the
\* photometric-binary count plus the photometric-single count is the
\* total count, and every binary fraction with total > 0 lies in [0, 1].
C24_BinariesPlusSinglesIsTotal ==
    /\ (calc.fn = "binary_fractions_with_period"
        /\ calc.step \in {"fractions", "plot"}) =>
           /\ Len(calc.total) = 20
           /\ \A k \in DOMAIN calc.total :
               /\ calc.total_binaries02[k] + calc.total_singles02[k]
                      = calc.total[k]
               /\ calc.total_binaries03[k] + calc.total_singles03[k]
                      = calc.total[k]
    /\ (calc.fn = "binary_fractions_with_period" /\ calc.step = "plot") =>
           \A k \in DOMAIN calc.total :
               calc.total[k] > 0 =>
                   /\ InUnitInterval(calc.frac02[k])
                   /\ InUnitInterval(calc.frac03[k])

\* the fractions are computed for a sample with a star whose excess is
\* exactly the inclusive limit, in a bin that holds a binary and a single
C24_Witness ==
    /\ calc.fn = "binary_fractions_with_period"
    /\ calc.step = "plot"
    /\ \E s \in DOMAIN calc.mcq_dwarfs :
           /\ calc.mcq_dwarfs[s].excess = incl_limit
           /\ calc.mcq_dwarfs[s].period = 15
    /\ calc.frac02[1].num = 1
    /\ calc.frac02[1].den = 2
    /\ calc.frac03[1].num < calc.frac03[1].den

(***************************************************************************)
(* The two inferred populations of tsb_distribution.  The fractions f_ts   *)
(* and f_ss and the inferred counts are rational numbers, kept exactly as  *)
(* records [num, den] with den > 0; den = 0 stands for the inf or nan of   *)
(* a division by zero.  Periods are tenths of a day, excesses hundredths   *)
(* of a magnitude.                                                         *)
(***************************************************************************)
QInt(n) == [num |-> n, den |-> 1]
QNeg(a) == [num |-> -a.num, den |-> a.den]
QAdd(a, b) == [num |-> a.num * b.den + b.num * a.den, den |-> a.den * b.den]
QSub(a, b) == QAdd(a, QNeg(b))
QMul(a, b) == [num |-> a.num * b.num, den |-> a.den * b.den]
QDiv(a, b) ==
    IF b.num > 0 THEN [num |-> a.num * b.den, den |-> a.den * b.num]
    ELSE IF b.num < 0 THEN [num |-> -(a.num * b.den), den |-> -(a.den * b.num)]
    ELSE [num |-> a.num, den |-> 0]
QEq(a, b) == a.den # 0 /\ b.den # 0 /\ a.num * b.den = b.num * a.den

\* mcq_dwarfs[["Prot", "Corrected K Excess"]] and
\* dwarf_ebs[["period", "Corrected K Excess"]]: one row per star
TsbStars == [period : {30, 100, 180, 250}, excess : {-35, -30}]
TsbEBs == [period : {8, 30, 180}, excess : {-35, -30}]

\* table["Corrected K Excess"] < -0.3  and  >= -0.3
tsb_binary(row) == row.excess < -30
tsb_single(row) == row.excess >= -30
\* np.logical_and(col < 5, col > 1)  and  col > 15
tsb_rapid(row) == row.period < 50 /\ row.period > 10
tsb_slow(row) == row.period > 150

\* periodbins = np.linspace(1, 20, 19+1, ...)
tsb_periodbins == linspace(10, 10, 19 + 1)

\* -((f_ss*single_perioddist - (1-f_ss)*binary_perioddist) / (fts_fss))
tidsync_perioddist_unsigned(f_ss, single, binary, fts_fss) ==
    [k \in DOMAIN single |->
        QDiv(QSub(QMul(f_ss, QInt(single[k])),
                  QMul(QSub(QInt(1), f_ss), QInt(binary[k]))),
             fts_fss)]
tidsync_perioddist(f_ss, single, binary, fts_fss) ==
    [k \in DOMAIN single |->
        QNeg(QDiv(QSub(QMul(f_ss, QInt(single[k])),
                       QMul(QSub(QInt(1), f_ss), QInt(binary[k]))),
                  fts_fss))]

\* (f_ts*single_perioddist - (1-f_ts)*binary_perioddist) / (fts_fss)
singlestar_perioddist(f_ts, single, binary, fts_fss) ==
    [k \in DOMAIN single |->
        QDiv(QSub(QMul(f_ts, QInt(single[k])),
                  QMul(QSub(QInt(1), f_ts), QInt(binary[k]))),
             fts_fss)]

InitTsb ==
    /\ Imported
    /\ bins = NotEntered
    /\ fit = NotEntered
    /\ splitters = NotEntered
    /\ recov = NotEntered
    /\ \E m \in UNION {[1..n -> TsbStars] : n \in 1..MaxStars},
          e \in UNION {[1..n -> TsbEBs] : n \in 0..MaxEBs} :
           calc = [fn |-> "tsb_distribution", step |-> "fractions",
                   mcq_dwarfs |-> m, dwarf_ebs |-> e,
                   f_ts |-> QInt(0), f_ss |-> QInt(0), fts_fss |-> QInt(0),
                   binary_perioddist |-> << >>, single_perioddist |-> << >>,
                   tidsync_perioddist |-> << >>,
                   singlestar_perioddist |-> << >>,
                   full_perioddist |-> << >>, exc |-> "none"]

\* dwarf_ebs = dwarf_ebs[dwarf_ebs["period"] > 1]; the four counts;
\* f_ts = ...; f_ss = ...; fts_fss = f_ts - f_ss.  The counts are Python
\* integers, so a zero denominator raises ZeroDivisionError.
TsbFractions ==
    /\ calc.fn = "tsb_distribution"
    /\ calc.step = "fractions"
    /\ LET detached(row) == row.period > 10
           ebs == SelectSeq(calc.dwarf_ebs, detached)
           rb(row) == tsb_binary(row) /\ tsb_rapid(row)
           rs(row) == tsb_single(row) /\ tsb_rapid(row)
           sb(row) == tsb_binary(row) /\ tsb_slow(row)
           ss(row) == tsb_single(row) /\ tsb_slow(row)
           N(mask(_)) == Len(SelectSeq(calc.mcq_dwarfs, mask))
                             + Len(SelectSeq(ebs, mask))
           num_rapid_binaries == N(rb)
           num_rapid_singles == N(rs)
           num_slow_binaries == N(sb)
           num_slow_singles == N(ss)
       IN  IF num_rapid_binaries + num_rapid_singles = 0
              \/ num_slow_binaries + num_slow_singles = 0
           THEN calc' = [calc EXCEPT !.step = "raised", !.dwarf_ebs = ebs,
                                     !.exc = "ZeroDivisionError"]
           ELSE LET f_ts == QDiv(QInt(num_rapid_binaries),
                                 QInt(num_rapid_binaries + num_rapid_singles))
                    f_ss == QDiv(QInt(num_slow_binaries),
                                 QInt(num_slow_binaries + num_slow_singles))
                IN  calc' = [calc EXCEPT
                                 !.step = "histograms", !.dwarf_ebs = ebs,
                                 !.f_ts = f_ts, !.f_ss = f_ss,
                                 !.fts_fss = QSub(f_ts, f_ss)]
    /\ UNCHANGED << script, bins, fit, splitters, recov >>

\* binary_perioddist = mcq_binary_perioddist + eb_binary_perioddist;
\* single_perioddist = mcq_single_perioddist + eb_single_perioddist
TsbHistograms ==
    /\ calc.fn = "tsb_distribution"
    /\ calc.step = "histograms"
    /\ LET H(table, mask(_)) ==
               histogram(PeriodsOf(SelectSeq(table, mask)), tsb_periodbins)
       IN  calc' = [calc EXCEPT
                !.step = "infer",
                !.binary_perioddist =
                    AddHist(H(calc.mcq_dwarfs, tsb_binary),
                            H(calc.dwarf_ebs, tsb_binary)),
                !.single_perioddist =
                    AddHist(H(calc.mcq_dwarfs, tsb_single),
                            H(calc.dwarf_ebs, tsb_single))]
    /\ UNCHANGED << script, bins, fit, splitters, recov >>

\* tidsync_perioddist = ...; singlestar_perioddist = ...
TsbInfer ==
    /\ calc.fn = "tsb_distribution"
    /\ calc.step = "infer"
    /\ calc' = [calc EXCEPT
            !.step = "full",
            !.tidsync_perioddist =
                tidsync_perioddist(calc.f_ss, calc.single_perioddist,
                                   calc.binary_perioddist, calc.fts_fss),
            !.singlestar_perioddist =
                singlestar_perioddist(calc.f_ts, calc.single_perioddist,
                                      calc.binary_perioddist, calc.fts_fss)]
    /\ UNCHANGED << script, bins, fit, splitters, recov >>

\* full_perioddist = mcq_full_perioddist + eb_full_perioddist
TsbFull ==
    /\ calc.fn = "tsb_distribution"
    /\ calc.step = "full"
    /\ LET H(table) == histogram(PeriodsOf(table), tsb_periodbins)
       IN  calc' = [calc EXCEPT
                !.step = "plot",
                !.full_perioddist =
                    AddHist(H(calc.mcq_dwarfs), H(calc.dwarf_ebs))]
    /\ UNCHANGED << script, bins, fit, splitters, recov >>

NextTsb ==
    \/ TsbFractions
    \/ TsbHistograms
    \/ TsbInfer
    \/ TsbFull

SpecTsb == InitTsb /\ [][NextTsb]_vars

\* C25: whenever f_ts differs from f_ss, in every period bin the two
\* inferred populations add up to the observed counts:
\* tidsync_perioddist + singlestar_perioddist = binary_perioddist +
\* single_perioddist, which is full_perioddist.
C25_PopulationsConserveCounts ==
    (/\ calc.fn = "tsb_distribution"
     /\ calc.step = "plot"
     /\ ~QEq(calc.f_ts, calc.f_ss)) =>
        /\ Len(calc.full_perioddist) = 19
        /\ \A k \in DOMAIN calc.full_perioddist :
               /\ QEq(QAdd(calc.tidsync_perioddist[k],
                           calc.singlestar_perioddist[k]),
                      QInt(calc.binary_perioddist[k]
                               + calc.single_perioddist[k]))
               /\ calc.binary_perioddist[k] + calc.single_perioddist[k]
                      = calc.full_perioddist[k]

\* the populations are inferred with f_ts = 1/2 and f_ss = 0 for a bin
\* that holds one binary and one single: two synchronized stars, no
\* single-star one
C25_Witness ==
    /\ calc.fn = "tsb_distribution"
    /\ calc.step = "plot"
    /\ QEq(calc.f_ts, [num |-> 1, den |-> 2])
    /\ QEq(calc.f_ss, QInt(0))
    /\ calc.binary_perioddist[3] = 1
    /\ calc.single_perioddist[3] = 1
    /\ QEq(calc.tidsync_perioddist[3], QInt(2))
    /\ QEq(calc.singlestar_perioddist[3], QInt(0))

(***************************************************************************)
(* The rate messages of eb_rapid_rotator_rate_apogee and                   *)
(* eclipsing_binary_inferred_distribution.  The uncertainties are counted  *)
(* in units of scale / totalobjs (short_binaries_scale / fullnum).         *)
(***************************************************************************)
MsgFns == {"eb_rapid_rotator_rate_apogee",
           "eclipsing_binary_inferred_distribution"}

\* the width of a one-sigma Poisson interval above and below the count, as
\* au.poisson_upper and au.poisson_lower give them, and the central value
PoissonWidths == 1..3
CentralValues == 0..2

\* a format string is a sequence of literal texts and replacement fields
\* "{index:spec}"
Lit(text) == [lit |-> text, index |-> -1, spec |-> ""]
Fld(index, spec) == [lit |-> "", index |-> index, spec |-> spec]

\* "Rate is {0:.5f} + {1:.6f} - {1:.6f}"
rate_message ==
    << Lit("Rate is "), Fld(0, ".5f"), Lit(" + "), Fld(1, ".6f"),
       Lit(" - "), Fld(1, ".6f") >>
\* "Fraction of binaries between 1.5-10 days are: {0:.2g}+{1:.3g}-{1:.3g}"
fraction_message ==
    << Lit("Fraction of binaries between 1.5-10 days are: "),
       Fld(0, ".2g"), Lit("+"), Fld(1, ".3g"), Lit("-"), Fld(1, ".3g") >>

\* template.format(*args): every replacement field is replaced by the
\* positional argument of its index, rendered with its format spec
format(template, args) ==
    [k \in DOMAIN template |->
        IF template[k].index < 0
        THEN [lit |-> template[k].lit, spec |-> "", value |-> 0]
        ELSE [lit |-> "", spec |-> template[k].spec,
              value |-> args[template[k].index + 1]]]

InitMsg ==
    /\ Imported
    /\ bins = NotEntered
    /\ fit = NotEntered
    /\ splitters = NotEntered
    /\ recov = NotEntered
    /\ \E f \in MsgFns, c \in CentralValues, u \in PoissonWidths,
          l \in PoissonWidths :
           calc = [fn |-> f, step |-> "uncertainties", central |-> c,
                   above |-> u, below |-> l,
                   upper |-> 0, lower |-> 0, message |-> << >>]

\* raw_upper = au.poisson_upper(pred_num, 1) - pred_num;
\* raw_lower = au.poisson_lower(pred_num, 1) - pred_num  (negative) in
\* eb_rapid_rotator_rate_apogee; num_short_ebs_upper = ... - num_short_ebs;
\* num_short_ebs_lower = num_short_ebs - au.poisson_lower(...) in
\* eclipsing_binary_inferred_distribution
MsgUncertainties ==
    /\ calc.fn \in MsgFns
    /\ calc.step = "uncertainties"
    /\ calc' = [calc EXCEPT
                    !.step = "print",
                    !.upper = calc.above,
                    !.lower = IF calc.fn = "eb_rapid_rotator_rate_apogee"
                              THEN -calc.below ELSE calc.below]
    /\ UNCHANGED << script, bins, fit, splitters, recov >>

\* print("...".format(central, upper, lower))
MsgPrint ==
    /\ calc.fn \in MsgFns
    /\ calc.step = "print"
    /\ LET template == IF calc.fn = "eb_rapid_rotator_rate_apogee"
                       THEN rate_message ELSE fraction_message
       IN  calc' = [calc EXCEPT
                        !.step = "done",
                        !.message = format(template,
                            << calc.central, calc.upper, calc.lower >>)]
    /\ UNCHANGED << script, bins, fit, splitters, recov >>

NextMsg ==
    \/ MsgUncertainties
    \/ MsgPrint

SpecMsg == InitMsg /\ [][NextMsg]_vars

\* C26: the printed rate message shows the central value, then after the
\* '+' the upper uncertainty, then after the '-' the lower uncertainty
\* that was computed and passed to the format call.
C26_MessageShowsLowerUncertainty ==
    (calc.fn \in MsgFns /\ calc.step = "done") =>
        /\ Len(calc.message) = 6
        /\ calc.message[2].value = calc.central
        /\ calc.message[3].lit \in {" + ", "+"}
        /\ calc.message[4].value = calc.upper
        /\ calc.message[5].lit \in {" - ", "-"}
        /\ calc.message[6].value = calc.lower

=============================================================================
